---- MODULE Spec2Model ----
\* A model of magic_di's dependency injector: the singleton container
\* (_container.py), the type-hint helpers (_utils.py), the injector
\* (_injector.py) and the client threads that call them.
EXTENDS Integers, Sequences, FiniteSets, TLC

\* ---------------------------------------------------------------- bounds
\* How many instances may be constructed, containers created and lazy
\* closures made in one behaviour.
MaxInst == 8
MaxGen == 2
MaxLazy == 1
\* How many containers one behaviour of nested override scopes may create.
MaxNest == 3
\* the ping_dependencies calls of a behaviour, and the largest
\* max_concurrency they are made with
MaxPing == 2
MaxConc == 2
\* How many calls deep a thread may be before the interpreter raises
\* RecursionError.
MaxDepth == 7

\* ------------------------------------------------------- type annotations
\* A type expression: the class (or function) itself, or a union, which has
\* its members (typing.get_args) in the order written and no name.
\* Obj(n) is the object named n itself (a class or a function), Opt(n) is
\* Optional[n] or n | None.
NoneType == "NoneType"
Obj(n) == [kind |-> "obj", name |-> n, args |-> << >>]
Union(ms) == [kind |-> "union", name |-> "", args |-> ms]
Opt(n) == Union(<< n, NoneType >>)

\* One parameter of a user class: its annotation, whether the annotation is
\* wrapped in Annotated[..., Injectable], and whether it has a default.
Param(n, t, marked, default) ==
  [name |-> n, hint |-> t, marked |-> marked, default |-> default]

\* ------------------------------------------------------------ user classes
\* The classes of tests/conftest.py (ConnectableClient is the base class of
\* its connectable ones), ClsWithEmbeddedInjection of test_embedded_injection,
\* and four more: EmptyPool, a Connectable
\* that depends on Database and whose instances are falsy (it defines
\* __len__ and is empty), PoolClient, a Connectable that depends on it,
\* BrokenClient, a Connectable with a required parameter that is no
\* dependency, and BrokenClientUser, a Connectable that depends on it.
\* UnionHolder is a Connectable whose parameters are annotated with unions:
\* None | Database, Database | AnotherDatabase, a union of three members
\* (both with defaults), and AsyncWorkers | None.
\* ServiceWithNonConnectable is the dataclass of
\* test_injector_flag_injectable: "db: Annotated[NonConnectableDatabase,
\* Injectable]".
ClassNames ==
  {"ConnectableClient", "Database", "AnotherDatabase", "Repository",
   "AsyncWorkers", "Service", "NonConnectableDatabase", "BrokenRepo",
   "BrokenService", "ClsWithEmbeddedInjection", "EmptyPool", "PoolClient",
   "BrokenClient", "BrokenClientUser", "ServiceWithNonConnectable",
   "UnionHolder", "PingableDatabase", "PingableService", "PingableGateway",
   "DependenciesHealthcheck", "BaseCeleryConnectableDeps",
   "DatabaseThenBroken", "CycleA", "CycleB", "CycleUser"}

\* The plain functions clients inject: run_service of
\* test_function_injection_success, "def run_service(service: Service)",
\* main of test_inject_and_run_sync, "def main(repo: Repository)", and a
\* function alike that takes a PoolClient; the handlers and dependency
\* functions of test_app_injection_with_depends (global_dependency,
\* assert_db_connected, get_creds, hello_world), a handler alike that takes
\* a PoolClient, and the function "inject" that Provide[...] puts in its
\* Depends; the Celery task service_ping_sync of test_celery.py, "def
\* service_ping_sync(arg1: int, arg2: str, service: Service = PROVIDE)",
\* and one alike that is provided an AnotherDatabase.
FunctionNames ==
  {"run_service", "main", "pool_main", "global_dependency",
   "assert_db_connected", "get_creds", "hello_world", "pool_status",
   "Provide.inject", "service_ping_sync", "db_ping"}

\* typing.get_type_hints(cls.__init__), or of the function itself, minus
\* "return", in declaration order.
Params(n) ==
  CASE n = "run_service" ->
         << Param("service", Obj("Service"), FALSE, FALSE) >>
    [] n = "main" ->
         << Param("repo", Obj("Repository"), FALSE, FALSE) >>
    [] n = "pool_main" ->
         << Param("client", Obj("PoolClient"), FALSE, FALSE) >>
    [] n = "global_dependency" ->
         << Param("dep", Obj("Database"), TRUE, FALSE) >>
    [] n = "assert_db_connected" ->
         << Param("db", Obj("AnotherDatabase"), TRUE, FALSE) >>
    [] n = "get_creds" ->
         << Param("mw", Obj("NonConnectableDatabase"), TRUE, FALSE),
            Param("db_connect", Obj("bool"), FALSE, TRUE) >>
    [] n = "hello_world" ->
         << Param("service", Obj("Service"), TRUE, FALSE),
            Param("creds", Obj("str"), FALSE, FALSE) >>
    [] n = "pool_status" ->
         << Param("client", Obj("PoolClient"), TRUE, FALSE) >>
    [] n = "service_ping_sync" ->
         << Param("arg1", Obj("int"), FALSE, TRUE),
            Param("arg2", Obj("str"), FALSE, TRUE),
            Param("service", Obj("Service"), FALSE, TRUE) >>
    [] n = "db_ping" ->
         << Param("db", Obj("AnotherDatabase"), FALSE, TRUE) >>
    [] n = "Provide.inject" ->
         << Param("request", Obj("Request"), FALSE, FALSE) >>
    [] n = "Repository" ->
         << Param("db", Obj("Database"), FALSE, FALSE),
            Param("some_params", Obj("int"), FALSE, TRUE) >>
    [] n = "Service" ->
         << Param("repo", Obj("Repository"), FALSE, FALSE),
            Param("workers", Opt("AsyncWorkers"), FALSE, FALSE) >>
    [] n = "BrokenRepo" ->
         << Param("db", Obj("NonConnectableDatabase"), FALSE, FALSE) >>
    [] n = "BrokenService" ->
         << Param("repo", Obj("BrokenRepo"), FALSE, FALSE) >>
    [] n = "ClsWithEmbeddedInjection" ->
         << Param("injected_injector", Obj("DependencyInjector"), FALSE, FALSE) >>
    [] n = "EmptyPool" ->
         << Param("db", Obj("Database"), FALSE, FALSE) >>
    [] n = "PoolClient" ->
         << Param("pool", Obj("EmptyPool"), FALSE, FALSE) >>
    [] n = "BrokenClient" ->
         << Param("db", Obj("NonConnectableDatabase"), FALSE, FALSE) >>
    [] n = "UnionHolder" ->
         << Param("db", Union(<< NoneType, "Database" >>), FALSE, FALSE),
            Param("either", Union(<< "Database", "AnotherDatabase" >>),
                  FALSE, TRUE),
            Param("any",
                  Union(<< "Database", "AnotherDatabase", NoneType >>),
                  FALSE, TRUE),
            Param("workers", Opt("AsyncWorkers"), FALSE, FALSE) >>
    [] n = "ServiceWithNonConnectable" ->
         << Param("db", Obj("NonConnectableDatabase"), TRUE, FALSE) >>
    [] n = "BrokenClientUser" ->
         << Param("client", Obj("BrokenClient"), FALSE, FALSE),
            Param("db", Obj("Database"), FALSE, FALSE) >>
    [] n = "DatabaseThenBroken" ->
         << Param("db", Obj("Database"), FALSE, FALSE),
            Param("client", Obj("BrokenClient"), FALSE, FALSE) >>
    [] n = "CycleA" ->
         << Param("b", Obj("CycleB"), FALSE, FALSE) >>
    [] n = "CycleB" ->
         << Param("a", Obj("CycleA"), FALSE, FALSE) >>
    [] n = "CycleUser" ->
         << Param("db", Obj("Database"), FALSE, FALSE),
            Param("a", Obj("CycleA"), FALSE, FALSE) >>
    [] n = "PingableService" ->
         << Param("db", Obj("PingableDatabase"), FALSE, FALSE) >>
    [] n = "PingableGateway" ->
         << Param("service", Obj("PingableService"), FALSE, FALSE) >>
    [] n = "DependenciesHealthcheck" ->
         << Param("injector", Obj("DependencyInjector"), FALSE, FALSE) >>
    [] OTHER -> << >>

\* The functions the parameters of a handler or dependency function name
\* in a Depends, as a default or in Annotated metadata, in parameter
\* order. A parameter annotated Provide[X] carries Depends(inject).
DependsOf(n) ==
  CASE n = "global_dependency" -> << "Provide.inject" >>
    [] n = "assert_db_connected" -> << "Provide.inject" >>
    [] n = "get_creds" -> << "Provide.inject", "assert_db_connected" >>
    [] n = "hello_world" -> << "Provide.inject", "get_creds" >>
    [] n = "pool_status" -> << "Provide.inject" >>
    [] OTHER -> << >>

\* The applications inject_app is called with: that of
\* test_app_injection_with_depends (an app-level dependency, a handler with
\* nested Depends), and one whose route has a dependency of its own and a
\* handler that is provided a PoolClient.
Apps == {"depends_app", "pool_app"}

\* app.router.dependencies
AppDependencies(a) ==
  IF a = "depends_app" THEN << "global_dependency" >> ELSE << >>

\* app.router.routes: each with its endpoint and its own dependencies.
AppRoutes(a) ==
  IF a = "depends_app"
    THEN << [endpoint |-> "hello_world", dependencies |-> << >>] >>
    ELSE << [endpoint |-> "pool_status",
             dependencies |-> << "assert_db_connected" >>] >>

\* The classes that define __connect__ and __disconnect__.
HasHooks(n) ==
  n \in {"ConnectableClient", "Database", "AnotherDatabase", "Repository",
         "AsyncWorkers", "Service", "ClsWithEmbeddedInjection", "EmptyPool",
         "PoolClient", "BrokenClient", "BrokenClientUser", "UnionHolder",
         "PingableDatabase", "PingableService", "PingableGateway",
         "DependenciesHealthcheck", "BaseCeleryConnectableDeps",
         "DatabaseThenBroken", "CycleA", "CycleB", "CycleUser"}

\* The classes that define __ping__ as well: PingableDatabase and
\* PingableService of test_healthcheck, and a third that depends on the
\* second.
HasPing(n) == n \in {"PingableDatabase", "PingableService", "PingableGateway"}

\* The classes whose __ping__ may raise an Exception when it is awaited.
PingMayRaise(n) == n \in {"PingableService"}

\* What the constructor of the class injects by itself through the injector
\* it was given, and the attribute it keeps the instance in:
\* "self.service = injector.inject(Service)()".
Embeds(n) ==
  IF n = "ClsWithEmbeddedInjection"
    THEN << [name |-> "service", target |-> Obj("Service")] >>
    ELSE << >>

\* The classes whose hooks may raise an Exception when they are awaited.
HookMayRaise(n) == n \in {"Repository"}

\* bool(instance) for an instance of the class.
Truthy(n) == n # "EmptyPool"

\* inspect.isclass(obj)
IsClass(n) == n \in ClassNames

\* ------------------------------------------------------------- _utils.py
\* A get_cls_from_optional that does not look for None among the members.
get_cls_from_any_pair(t) ==
  IF t.kind # "union" THEN t
  ELSE IF Len(t.args) # 2 THEN t
  ELSE IF t.args[1] # NoneType THEN Obj(t.args[1])
  ELSE Obj(t.args[2])

\* get_cls_from_optional: a union of two members one of which is None gives
\* its first member that is not None, anything else gives itself.
get_cls_from_optional(t) ==
  IF t.kind # "union" THEN t
  ELSE IF Len(t.args) # 2 THEN t
  ELSE IF \A k \in 1..Len(t.args) : t.args[k] # NoneType THEN t
  ELSE IF t.args[1] # NoneType THEN Obj(t.args[1])
  ELSE IF t.args[2] # NoneType THEN Obj(t.args[2])
  ELSE t

\* is_connectable applied to a type: the type when it is a class that has
\* the two hooks, None (FALSE here) otherwise.
is_connectable_cls(t) == t.kind = "obj" /\ HasHooks(t.name)

\* ------------------------------------------------------------------ state
VARIABLES
  active,      \* the client threads of this behaviour
  bindings,    \* DependencyInjector.bindings: class name -> class name
  deps,        \* DependencyInjector._deps: the id of the current container
  containers,  \* every SingletonDependencyContainer made: id -> its _deps,
               \* the Dependency records in insertion order
  factories,   \* every object _wrap has returned: id -> [obj, kwargs, inst]
  heap,        \* every object constructed by user code: id -> its class,
               \* its constructor arguments, what its constructor injected
               \* by itself, and its "connected" attribute
  postponed,   \* DependencyInjector._postponed
  lazies,      \* the closures lazy_inject has returned: id -> [obj, injected]
  stack,       \* per thread: the frames of the call in progress, top first,
               \* each with the locks it holds
  scopes,      \* per thread: the override scopes it is inside, innermost first
  exc,         \* per thread: the exception propagating in it, or "none"
  last,        \* per thread: what its last completed call returned
  connectLog,    \* the __connect__ hooks the latest connect() has called,
                 \* in order, each "started", "done" or "failed"
  disconnectLog, \* the same for the latest disconnect()
  connectCalled, \* whether connect() has been called yet
  pings,         \* the asyncio tasks ping_dependencies has made, in order:
                 \* the instance pinged, the state of the task, the call
                 \* that made it and whether that call still has it in
                 \* its set "tasks"
  celery         \* the Celery application: CeleryLoader.loaded and the
                 \* tasks that have been instantiated

vars == << active, bindings, deps, containers, factories, heap, postponed,
           lazies, stack, scopes, exc, last, connectLog,
           disconnectLog, connectCalled, pings, celery >>

Threads == {"t1", "t2"}

\* The values a client passes to inject, and those it passes to lazy_inject.
Targets ==
  {Obj("Service"), Obj("Repository"), Opt("AsyncWorkers"), Obj("PoolClient"),
   Obj("BrokenService")}

LazyTargets == {Obj("Service")}

\* The values a client passes to lazy_inject before it connects.
LazyConnectTargets == {Obj("Service"), Obj("EmptyPool")}

\* The values a client passes to inject around and inside override scopes,
\* and those two racing threads pass to it.
OverrideTargets == {Obj("Service"), Obj("Repository"), Obj("BrokenService")}

RaceTargets == {Obj("Service"), Obj("Repository")}

\* The mappings a client passes to bind and override.
BindChoices == { "Database" :> "AnotherDatabase" }

\* The target a client injects in and around nested override scopes, and
\* the mappings it passes to them.
NestedTargets == {Obj("Repository")}

NestedChoices ==
  { "Database" :> "AnotherDatabase", "Database" :> "ConnectableClient" }

\* The target of test_embedded_injection, whose constructor injects Service
\* by itself, and the target a second thread injects meanwhile.
EmbeddedTargets == {Obj("ClsWithEmbeddedInjection")}
ContendingTargets == {Obj("Database")}

\* The targets of a client some of whose injections fail: BrokenService
\* (test_class_injection_missing_class) fails in its own construction,
\* BrokenClientUser in that of its sub-dependency, Service in none.
FailureTargets ==
  {Obj("BrokenService"), Obj("BrokenClientUser"), Obj("Service")}

\* The targets of clients that look at the order of registration, and the
\* interfaces they ask get_dependencies_by_interface for.
OrderTargets == {Obj("Service"), Obj("PoolClient")}
Interfaces == {"ConnectableClient"}

\* The targets of a client that checks the health of its dependencies:
\* the healthcheck component, a chain of three classes with a ping hook and
\* a class without one.
PingTargets ==
  {Obj("DependenciesHealthcheck"), Obj("PingableGateway"), Obj("Database")}

\* The tasks of a Celery application, and the thread of the event loop
\* the loader runs coroutines in.
CeleryTasks == {"service_ping_sync", "db_ping"}
LoopThread == "t2"

\* The functions a client passes to inject_and_run.
RunTargets == {Obj("main"), Obj("pool_main")}

\* The targets of a client that injects a plain function and the classes
\* the function depends on.
FunctionTargets ==
  {Obj("run_service"), Obj("Service"), Obj("Repository"), Obj("AsyncWorkers")}

\* The targets of a client that injects through unions with None: classes
\* with parameters so annotated, and unions themselves.
OptionalTargets ==
  {Obj("UnionHolder"), Obj("Service"), Obj("AsyncWorkers"),
   Opt("AsyncWorkers"), Union(<< NoneType, "Repository" >>)}

\* The targets of a client whose parameters fall in each of the slots of
\* inspect, and the mappings it passes to bind meanwhile: one rebinds the
\* marked parameter's class, one rebinds a lifecycle-capable class to one
\* that is not.
MarkedTargets ==
  {Obj("ServiceWithNonConnectable"), Obj("BrokenRepo"), Obj("Repository"),
   Obj("ClsWithEmbeddedInjection")}

MarkedBinds ==
  { "NonConnectableDatabase" :> "AnotherDatabase", "Database" :> "BrokenRepo" }

\* The targets a client injects around calls of bind, and the mappings it
\* passes to bind: one that binds Database, one that binds it again, and
\* one that binds the class Database was bound to.
BindTargets == {Obj("Repository"), Obj("Database"), Obj("AnotherDatabase")}

BindInputs ==
  { "Database" :> "AnotherDatabase", "Database" :> "ConnectableClient",
    "AnotherDatabase" :> "ConnectableClient" }

NoSig ==
  [obj |-> Obj(""), is_injectable |-> FALSE, deps |-> << >>,
   kwargs |-> << >>, injector_arg |-> ""]

\* What the latest call of a thread gave its client: the wrapped object
\* (fac) and the instance (inst) it returned, or, with op "raised", the obj
\* and the signature the InjectionError it raised carries, or (items) the
\* instances an iteration yielded.
NoLast ==
  [op |-> "none", cont |-> 0, key |-> Obj(""), fac |-> 0, inst |-> 0,
   sig |-> NoSig, items |-> << >>]

\* A frame keeps in req the argument the call was made with: inject rebinds
\* its own obj to the resolved type at line 89.
Frame(op, pc, obj) ==
  [op |-> op, pc |-> pc, req |-> obj, obj |-> obj, sig |-> NoSig, i |-> 1,
   clients |-> << >>, cont |-> 0, cand |-> 0, items |-> << >>, lazy |-> 0,
   locks |-> {}, max_concurrency |-> 0]

InitWith(ts) ==
  /\ active = ts
  /\ bindings = << >>
  /\ deps = 1
  /\ containers = << << >> >>
  /\ factories = << >>
  /\ heap = << >>
  /\ postponed = << >>
  /\ lazies = << >>
  /\ stack = [t \in Threads |-> << >>]
  /\ scopes = [t \in Threads |-> << >>]
  /\ exc = [t \in Threads |-> "none"]
  /\ last = [t \in Threads |-> NoLast]
  /\ connectLog = << >>
  /\ disconnectLog = << >>
  /\ connectCalled = FALSE
  /\ pings = << >>
  /\ celery = [loaded |-> FALSE, tasks |-> {}]

\* DependencyInjector.__init__ with no bindings, one client thread.
Init == InitWith({"t1"})

\* ------------------------------------------------------------ _container.py
\* A lookup that finds nothing, whatever the container holds.
_getNothing(c, key) == 0

\* SingletonDependencyContainer._get: the wrapped object registered under
\* the key, or None (0 here).
_get(c, key) ==
  IF \E k \in 1..Len(c) : c[k].key = key
    THEN c[CHOOSE k \in 1..Len(c) : c[k].key = key].object
    ELSE 0

\* The object obj(**kwargs) builds.
NewInstance(n, kwargs) ==
  [cls |-> n, args |-> kwargs, attrs |-> << >>, connected |-> FALSE]

\* A wrapped object that keeps what its first call returned, for a function
\* as for a class.
CallWrappedMemoAll(hp, fs, f) ==
  IF fs[f].inst # 0
    THEN [heap |-> hp, factories |-> fs, inst |-> fs[f].inst]
    ELSE [heap |-> Append(hp, NewInstance(fs[f].obj.name, fs[f].kwargs)),
          factories |-> [fs EXCEPT ![f].inst = Len(hp) + 1],
          inst |-> Len(hp) + 1]

\* A wrapped object that keeps no instance: every call builds a new one.
CallWrappedNoMemo(hp, fs, f) ==
  [heap |-> Append(hp, NewInstance(fs[f].obj.name, fs[f].kwargs)),
   factories |-> fs,
   inst |-> Len(hp) + 1]

\* Calling a wrapped object. For a class, SingletonPartialCls.__new__ returns
\* the instance it holds and builds one only when it holds none; for a
\* function, functools.partial calls the function: the new record stands
\* for that run of the body and what it returns. The result is the memory
\* afterwards and the value returned.
CallWrapped(hp, fs, f) ==
  IF IsClass(fs[f].obj.name) /\ fs[f].inst # 0
    THEN [heap |-> hp, factories |-> fs, inst |-> fs[f].inst]
    ELSE [heap |-> Append(hp, NewInstance(fs[f].obj.name, fs[f].kwargs)),
          factories |-> IF IsClass(fs[f].obj.name)
                          THEN [fs EXCEPT ![f].inst = Len(hp) + 1]
                          ELSE fs,
          inst |-> Len(hp) + 1]

\* _wrap(obj, **kwargs): a new wrapped object that holds no instance yet.
_wrap(obj, kwargs) == [obj |-> obj, kwargs |-> kwargs, inst |-> 0]

\* iter_instances: the records in insertion order (reversed on request),
\* those whose instance is falsy left out ("if dep.instance").
RECURSIVE Reverse(_)
Reverse(s) == IF s = << >> THEN << >> ELSE Append(Reverse(Tail(s)), Head(s))

InstanceIsTruthy(d) == d.instance # 0 /\ Truthy(heap[d.instance].cls)

\* An iter_instances that hands the records out in the opposite order.
iter_instances_backwards(c, reverse) ==
  SelectSeq(IF reverse THEN c ELSE Reverse(c), InstanceIsTruthy)

iter_instances(c, reverse) ==
  SelectSeq(IF reverse THEN Reverse(c) ELSE c, InstanceIsTruthy)

\* ------------------------------------------------------------- _injector.py
is_injector(t) == t = Obj("DependencyInjector")

\* DependencyInjector._unwrap_type_hint
_unwrap_type_hint(t) ==
  LET u == get_cls_from_optional(t)
  IN IF u.kind = "obj" /\ u.name \in DOMAIN bindings
       THEN Obj(bindings[u.name])
       ELSE u

\* An inspect that looks for no Injectable marker.
SlotIgnoresMarker(p) ==
  LET hint == _unwrap_type_hint(p.hint)
  IN IF is_injector(hint) THEN "injector"
     ELSE IF ~is_connectable_cls(hint) THEN "kwargs"
     ELSE "deps"

\* The slot inspect puts a parameter in.
Slot(p) ==
  LET hint == _unwrap_type_hint(p.hint)
  IN IF is_injector(hint) THEN "injector"
     ELSE IF ~is_connectable_cls(hint) /\ ~p.marked THEN "kwargs"
     ELSE "deps"

IsDep(p) == Slot(p) = "deps"
IsKwarg(p) == Slot(p) = "kwargs"
IsInjectorArg(p) == Slot(p) = "injector"

Unwrapped(ps) ==
  [k \in 1..Len(ps) |-> [name |-> ps[k].name,
                         type |-> _unwrap_type_hint(ps[k].hint)]]

\* DependencyInjector.inspect
inspect(obj) ==
  LET ps == IF obj.kind = "obj" THEN Params(obj.name) ELSE << >>
      inj == SelectSeq(ps, IsInjectorArg)
  IN [obj |-> obj,
      is_injectable |-> is_connectable_cls(obj),
      deps |-> Unwrapped(SelectSeq(ps, IsDep)),
      kwargs |-> Unwrapped(SelectSeq(ps, IsKwarg)),
      injector_arg |-> IF inj = << >> THEN "" ELSE inj[Len(inj)].name]

\* obj(**clients) raises TypeError: a parameter without a default gets no
\* argument.
RaisesTypeError(obj, clients) ==
  \E k \in 1..Len(Params(obj.name)) :
     /\ ~Params(obj.name)[k].default
     /\ \A j \in 1..Len(clients) : clients[j].name # Params(obj.name)[k].name

\* is_connectable applied to an instance, as connect and disconnect use it:
\* "if connectable_instance := is_connectable(instance)".
is_connectable(inst) ==
  HasHooks(heap[inst].cls) /\ Truthy(heap[inst].cls)

\* --------------------------------------------------------- client threads
Top(t) == Head(stack[t])
Running(t, op, pc) ==
  /\ t \in active
  /\ stack[t] # << >>
  /\ Top(t).op = op
  /\ Top(t).pc = pc
Idle(t) == t \in active /\ stack[t] = << >> /\ exc[t] = "none"

\* The two kinds of lock, both threading.Lock and so not re-entrant: one per
\* container ("self._lock" of SingletonDependencyContainer) and the
\* injector's own. A "with self._lock:" block can be entered only while no
\* frame of any thread, the caller's included, holds the lock.
ContainerLock(c) == << "container", c >>
InjectorLock == << "injector", 0 >>
Held(L) ==
  \E u \in Threads : \E k \in 1..Len(stack[u]) : L \in stack[u][k].locks

\* An exception leaves every frame of the thread (nothing in the library
\* catches it) and reaches the client.
Raise(t, e) ==
  /\ stack' = [stack EXCEPT ![t] = << >>]
  /\ exc' = [exc EXCEPT ![t] = e]
  /\ last' = [last EXCEPT ![t] = NoLast]

\* Line 106: "raise InjectionError(obj, signature) from exc".
RaiseInjectionError(t, obj, sig) ==
  /\ stack' = [stack EXCEPT ![t] = << >>]
  /\ exc' = [exc EXCEPT ![t] = "InjectionError"]
  /\ last' = [last EXCEPT ![t] =
       [NoLast EXCEPT !.op = "raised", !.key = obj, !.sig = sig]]

\* inject returns the wrapped object fac, found or registered in container c
\* under key, to its caller: the client, an outer inject (which calls it at
\* once for the instance: "self.inject(dep)()"), a constructor that injects
\* by itself ("self.service = injector.inject(Service)()"), connect (which
\* drops it) or a lazy_inject closure (which calls it and keeps the result).
Return(t, fac, c, key, hp, fs) ==
  LET rest == Tail(stack[t])
      r == CallWrapped(hp, fs, fac)
  IN IF rest = << >>
       THEN /\ stack' = [stack EXCEPT ![t] = << >>]
            /\ last' = [last EXCEPT ![t] =
                 [op |-> "inject", cont |-> c, key |-> key, fac |-> fac,
                  inst |-> 0, sig |-> NoSig, items |-> << >>]]
            /\ heap' = hp /\ factories' = fs
            /\ UNCHANGED lazies
       ELSE IF Head(rest).op = "inject" /\ Head(rest).pc = "init"
       THEN \* the constructor that injected by itself keeps the instance in
            \* its attribute and ends: the wrapped object, kept from now
            \* on, has its instance
            LET w == _wrap(Head(rest).obj, Head(rest).clients)
                f == Len(r.factories) + 1
                new == [NewInstance(Head(rest).obj.name, w.kwargs)
                          EXCEPT !.attrs =
                            << [name |-> Embeds(Head(rest).obj.name)[1].name,
                                inst |-> r.inst] >>]
            IN /\ Len(r.heap) + 1 <= MaxInst
               /\ heap' = Append(r.heap, new)
               /\ factories' =
                    Append(r.factories, [w EXCEPT !.inst = Len(r.heap) + 1])
               /\ stack' = [stack EXCEPT ![t] =
                    << [Head(rest) EXCEPT !.cand = f, !.pc = "commit"] >>
                    \o Tail(rest)]
               /\ UNCHANGED << last, lazies >>
       ELSE IF Head(rest).op = "inject"
       THEN /\ Len(r.heap) <= MaxInst
            /\ stack' = [stack EXCEPT ![t] =
                 << [Head(rest) EXCEPT
                       !.clients = Append(@, [name |-> Head(rest).sig.deps[Head(rest).i].name,
                                              inst |-> r.inst]),
                       !.i = @ + 1] >> \o Tail(rest)]
            /\ heap' = r.heap /\ factories' = r.factories
            /\ UNCHANGED << last, lazies >>
       ELSE IF Head(rest).op = "connect"
       THEN /\ stack' = [stack EXCEPT ![t] =
                 << [Head(rest) EXCEPT !.i = @ + 1] >> \o Tail(rest)]
            /\ heap' = hp /\ factories' = fs
            /\ UNCHANGED << last, lazies >>
       ELSE IF Head(rest).op = "task_init"
       THEN \* InjectableCeleryTask.__init__ calls what inject returned,
            \* "self.deps = self.injector.inject(deps_cls)()", and ends
            /\ Len(r.heap) <= MaxInst
            /\ stack' = [stack EXCEPT ![t] = Tail(rest)]
            /\ last' = [last EXCEPT ![t] =
                 [NoLast EXCEPT !.op = "task_init", !.key = Head(rest).obj]]
            /\ heap' = r.heap /\ factories' = r.factories
            /\ UNCHANGED lazies
       ELSE IF Head(rest).op = "task"
       THEN \* the runner keeps the wrapped function: "run"
            /\ stack' = [stack EXCEPT ![t] =
                 << [Head(rest) EXCEPT !.cand = fac, !.pc = "injected"] >>
                 \o Tail(rest)]
            /\ heap' = hp /\ factories' = fs
            /\ UNCHANGED << last, lazies >>
       ELSE IF Head(rest).op = "run"
       THEN \* inject_and_run keeps the wrapped function: "injected"
            /\ stack' = [stack EXCEPT ![t] =
                 << [Head(rest) EXCEPT !.cand = fac, !.pc = "injected"] >>
                 \o Tail(rest)]
            /\ heap' = hp /\ factories' = fs
            /\ UNCHANGED << last, lazies >>
       ELSE \* a lazy_inject closure
            /\ Len(r.heap) <= MaxInst
            /\ stack' = [stack EXCEPT ![t] = Tail(rest)]
            /\ lazies' = [lazies EXCEPT ![Head(rest).lazy].injected = r.inst]
            /\ last' = [last EXCEPT ![t] =
                 [op |-> "lazy", cont |-> c, key |-> key, fac |-> fac,
                  inst |-> r.inst, sig |-> NoSig, items |-> << >>]]
            /\ heap' = r.heap /\ factories' = r.factories

\* --- DependencyInjector.inject
\* The client calls injector.inject(target).
InjectCall(t, target) ==
  /\ Idle(t)
  /\ stack' = [stack EXCEPT ![t] = << Frame("inject", "enter", target) >>]
  /\ last' = [last EXCEPT ![t] = NoLast]
  /\ UNCHANGED << active, bindings, deps, containers, factories, heap,
                  postponed, lazies, scopes, exc,
                  connectLog, disconnectLog, connectCalled, pings,
                  celery >>

\* Lines 89-94: unwrap and rebind the target, return the registered wrapped
\* object if there is one, inspect the target otherwise.
InjectEnter(t) ==
  /\ Running(t, "inject", "enter")
  /\ ~Held(ContainerLock(deps))
  /\ LET key == _unwrap_type_hint(Top(t).obj)
         dep == _get(containers[deps], key)
     IN IF dep # 0
          THEN Return(t, dep, deps, key, heap, factories)
          ELSE /\ stack' = [stack EXCEPT ![t] =
                    << [Top(t) EXCEPT !.obj = key, !.sig = inspect(key),
                                      !.pc = "deps"] >> \o Tail(stack[t])]
               /\ UNCHANGED << heap, factories, lazies, last >>
  /\ UNCHANGED << active, bindings, deps, containers, postponed, scopes, exc,
                  connectLog, disconnectLog, connectCalled, pings,
                  celery >>

\* An inject that, finding the sub-dependency among the targets it is in the
\* middle of injecting, passes None for it and goes on.
InjectDepBreaksCycle(t) ==
  /\ Running(t, "inject", "deps")
  /\ Top(t).i <= Len(Top(t).sig.deps)
  /\ LET d == Top(t).sig.deps[Top(t).i]
     IN IF \E k \in 1..Len(stack[t]) :
             /\ stack[t][k].op = "inject"
             /\ stack[t][k].obj = _unwrap_type_hint(d.type)
          THEN stack' = [stack EXCEPT ![t] =
                 << [Top(t) EXCEPT !.i = @ + 1,
                       !.clients = Append(@, [name |-> d.name, inst |-> 0])] >>
                 \o Tail(@)]
          ELSE stack' = [stack EXCEPT ![t] =
                 << Frame("inject", "enter", d.type) >> \o @]
  /\ UNCHANGED << active, bindings, deps, containers, factories, heap,
                  postponed, lazies, scopes, exc, last,
                  connectLog, disconnectLog, connectCalled, pings,
                  celery >>

\* Lines 97-98: inject the next sub-dependency. The call is one level
\* deeper; past the interpreter's limit it raises RecursionError, which
\* nothing in inject catches.
InjectDep(t) ==
  /\ Running(t, "inject", "deps")
  /\ Top(t).i <= Len(Top(t).sig.deps)
  /\ IF Len(stack[t]) >= MaxDepth
       THEN Raise(t, "RecursionError")
       ELSE /\ stack' = [stack EXCEPT ![t] =
                 << Frame("inject", "enter", Top(t).sig.deps[Top(t).i].type) >>
                 \o @]
            /\ UNCHANGED << exc, last >>
  /\ UNCHANGED << active, bindings, deps, containers, factories, heap,
                  postponed, lazies, scopes,
                  connectLog, disconnectLog, connectCalled, pings,
                  celery >>

\* Lines 100-104 and add's first check under the container's lock: the
\* injector is passed in its slot, and a key that is registered by now is
\* returned.
InjectAdd(t) ==
  /\ Running(t, "inject", "deps")
  /\ Top(t).i > Len(Top(t).sig.deps)
  /\ ~Held(ContainerLock(deps))
  /\ LET dep == _get(containers[deps], Top(t).obj)
         clients == IF Top(t).sig.injector_arg = "" THEN Top(t).clients
                    ELSE Append(Top(t).clients,
                                [name |-> Top(t).sig.injector_arg, inst |-> -1])
     IN IF dep # 0
          THEN Return(t, dep, deps, Top(t).obj, heap, factories)
          ELSE /\ stack' = [stack EXCEPT ![t] =
                    << [Top(t) EXCEPT !.clients = clients, !.cont = deps,
                                      !.pc = "construct"] >> \o Tail(stack[t])]
               /\ UNCHANGED << heap, factories, lazies, last >>
  /\ UNCHANGED << active, bindings, deps, containers, postponed, scopes, exc,
                  connectLog, disconnectLog, connectCalled, pings,
                  celery >>

\* add with the instance built inside its first "with self._lock:" block:
\* the container's lock is held while the constructor runs.
InjectConstructUnderLock(t) ==
  /\ Running(t, "inject", "construct")
  /\ ~Held(ContainerLock(Top(t).cont))
  /\ LET obj == Top(t).obj
         fs == Append(factories, _wrap(obj, Top(t).clients))
         f == Len(fs)
     IN IF IsClass(obj.name) /\ RaisesTypeError(obj, Top(t).clients)
          THEN /\ RaiseInjectionError(t, obj, Top(t).sig)
               /\ UNCHANGED << heap, factories >>
          ELSE IF Embeds(obj.name) # << >>
          THEN /\ stack' = [stack EXCEPT ![t] =
                    << Frame("inject", "enter", Embeds(obj.name)[1].target),
                       [Top(t) EXCEPT !.pc = "init",
                                      !.locks = {ContainerLock(Top(t).cont)}] >>
                    \o Tail(stack[t])]
               /\ UNCHANGED << heap, factories, exc, last >>
          ELSE LET r == IF IsClass(obj.name) THEN CallWrapped(heap, fs, f)
                        ELSE [heap |-> heap, factories |-> fs, inst |-> 0]
               IN /\ Len(r.heap) <= MaxInst
                  /\ heap' = r.heap
                  /\ factories' = r.factories
                  /\ stack' = [stack EXCEPT ![t] =
                       << [Top(t) EXCEPT !.cand = f, !.pc = "commit"] >>
                       \o Tail(stack[t])]
                  /\ UNCHANGED << exc, last >>
  /\ UNCHANGED << active, bindings, deps, containers, postponed, lazies,
                  scopes, connectLog, disconnectLog, connectCalled, pings,
                  celery >>

\* An inject that drops the TypeError of a sub-dependency's constructor and
\* goes on with the next parameter of the dependent.
InjectConstructSwallow(t) ==
  /\ Running(t, "inject", "construct")
  /\ LET obj == Top(t).obj
         fs == Append(factories, _wrap(obj, Top(t).clients))
         f == Len(fs)
         rest == Tail(stack[t])
     IN IF IsClass(obj.name) /\ RaisesTypeError(obj, Top(t).clients)
          THEN IF rest # << >> /\ Head(rest).op = "inject"
                 THEN /\ stack' = [stack EXCEPT ![t] =
                           << [Head(rest) EXCEPT !.i = @ + 1] >> \o Tail(rest)]
                      /\ UNCHANGED << heap, factories, exc, last >>
                 ELSE /\ RaiseInjectionError(t, obj, Top(t).sig)
                      /\ UNCHANGED << heap, factories >>
          ELSE IF Embeds(obj.name) # << >>
          THEN /\ stack' = [stack EXCEPT ![t] =
                    << Frame("inject", "enter", Embeds(obj.name)[1].target),
                       [Top(t) EXCEPT !.pc = "init"] >>
                    \o Tail(stack[t])]
               /\ UNCHANGED << heap, factories, exc, last >>
          ELSE LET r == IF IsClass(obj.name) THEN CallWrapped(heap, fs, f)
                        ELSE [heap |-> heap, factories |-> fs, inst |-> 0]
               IN /\ Len(r.heap) <= MaxInst
                  /\ heap' = r.heap
                  /\ factories' = r.factories
                  /\ stack' = [stack EXCEPT ![t] =
                       << [Top(t) EXCEPT !.cand = f, !.pc = "commit"] >>
                       \o Tail(stack[t])]
                  /\ UNCHANGED << exc, last >>
  /\ UNCHANGED << active, bindings, deps, containers, postponed, lazies,
                  scopes, connectLog, disconnectLog, connectCalled, pings,
                  celery >>

\* An inject that undoes what it registered when a constructor raises: the
\* container in place is emptied before the InjectionError leaves.
InjectConstructRollback(t) ==
  /\ Running(t, "inject", "construct")
  /\ LET obj == Top(t).obj
         fs == Append(factories, _wrap(obj, Top(t).clients))
         f == Len(fs)
     IN IF IsClass(obj.name) /\ RaisesTypeError(obj, Top(t).clients)
          THEN /\ RaiseInjectionError(t, obj, Top(t).sig)
               /\ containers' = [containers EXCEPT ![deps] = << >>]
               /\ UNCHANGED << heap, factories >>
          ELSE /\ Embeds(obj.name) = << >>
               /\ LET r == IF IsClass(obj.name) THEN CallWrapped(heap, fs, f)
                           ELSE [heap |-> heap, factories |-> fs, inst |-> 0]
                  IN /\ Len(r.heap) <= MaxInst
                     /\ heap' = r.heap
                     /\ factories' = r.factories
                     /\ stack' = [stack EXCEPT ![t] =
                          << [Top(t) EXCEPT !.cand = f, !.pc = "commit"] >>
                          \o Tail(stack[t])]
                     /\ UNCHANGED << exc, last, containers >>
  /\ UNCHANGED << active, bindings, deps, postponed, lazies,
                  scopes, connectLog, disconnectLog, connectCalled, pings,
                  celery >>

\* add, outside the lock: wrap the target and, for a class, build the
\* instance by calling the wrapped object. A TypeError from the constructor
\* leaves inject as an InjectionError. A constructor that injects by itself
\* calls inject before it ends: the frame waits in "init" for the result.
InjectConstruct(t) ==
  /\ Running(t, "inject", "construct")
  /\ LET obj == Top(t).obj
         fs == Append(factories, _wrap(obj, Top(t).clients))
         f == Len(fs)
     IN IF IsClass(obj.name) /\ RaisesTypeError(obj, Top(t).clients)
          THEN /\ RaiseInjectionError(t, obj, Top(t).sig)
               /\ UNCHANGED << heap, factories >>
          ELSE IF Embeds(obj.name) # << >>
          THEN /\ stack' = [stack EXCEPT ![t] =
                    << Frame("inject", "enter", Embeds(obj.name)[1].target),
                       [Top(t) EXCEPT !.pc = "init"] >>
                    \o Tail(stack[t])]
               /\ UNCHANGED << heap, factories, exc, last >>
          ELSE LET r == IF IsClass(obj.name) THEN CallWrapped(heap, fs, f)
                        ELSE [heap |-> heap, factories |-> fs, inst |-> 0]
               IN /\ Len(r.heap) <= MaxInst
                  /\ heap' = r.heap
                  /\ factories' = r.factories
                  /\ stack' = [stack EXCEPT ![t] =
                       << [Top(t) EXCEPT !.cand = f, !.pc = "commit"] >>
                       \o Tail(stack[t])]
                  /\ UNCHANGED << exc, last >>
  /\ UNCHANGED << active, bindings, deps, containers, postponed, lazies,
                  scopes, connectLog, disconnectLog, connectCalled, pings,
                  celery >>

\* add without its second check: the candidate is stored whatever the
\* container holds by now.
InjectCommitNoRecheck(t) ==
  /\ Running(t, "inject", "commit")
  /\ ~Held(ContainerLock(Top(t).cont))
  /\ containers' = [containers EXCEPT ![Top(t).cont] =
       Append(@, [key |-> Top(t).obj, object |-> Top(t).cand,
                  instance |-> factories[Top(t).cand].inst])]
  /\ Return(t, Top(t).cand, Top(t).cont, Top(t).obj, heap, factories)
  /\ UNCHANGED << active, bindings, deps, postponed, scopes, exc,
                  connectLog, disconnectLog, connectCalled, pings,
                  celery >>

\* add as a plain dictionary store, without its second check: the record
\* of a key registered meanwhile is replaced, at its place, by the candidate.
InjectCommitOverwrite(t) ==
  /\ Running(t, "inject", "commit")
  /\ ~Held(ContainerLock(Top(t).cont))
  /\ LET c == Top(t).cont
         key == Top(t).obj
         cand == Top(t).cand
         rec == [key |-> key, object |-> cand,
                 instance |-> factories[cand].inst]
     IN containers' = [containers EXCEPT ![c] =
          IF _get(@, key) # 0
            THEN [k \in 1..Len(@) |-> IF @[k].key = key THEN rec ELSE @[k]]
            ELSE Append(@, rec)]
  /\ Return(t, Top(t).cand, Top(t).cont, Top(t).obj, heap, factories)
  /\ UNCHANGED << active, bindings, deps, postponed, scopes, exc,
                  connectLog, disconnectLog, connectCalled, pings,
                  celery >>

\* add's second check under the lock: the record is stored unless the key
\* was registered meanwhile; then the registered object is returned and the
\* candidate dropped.
InjectCommit(t) ==
  /\ Running(t, "inject", "commit")
  /\ ~Held(ContainerLock(Top(t).cont))
  /\ LET c == Top(t).cont
         key == Top(t).obj
         dep == _get(containers[c], key)
         cand == Top(t).cand
     IN IF dep # 0
          THEN /\ Return(t, dep, c, key, heap, factories)
               /\ UNCHANGED containers
          ELSE /\ containers' = [containers EXCEPT ![c] =
                    Append(@, [key |-> key, object |-> cand,
                               instance |-> factories[cand].inst])]
               /\ Return(t, cand, c, key, heap, factories)
  /\ UNCHANGED << active, bindings, deps, postponed, scopes, exc,
                  connectLog, disconnectLog, connectCalled, pings,
                  celery >>

\* The client calls the wrapped object inject has just returned to it.
InvokeFactory(t) ==
  /\ Idle(t)
  /\ last[t].op = "inject"
  /\ LET r == CallWrapped(heap, factories, last[t].fac)
     IN /\ Len(r.heap) <= MaxInst
        /\ heap' = r.heap
        /\ factories' = r.factories
        /\ last' = [last EXCEPT ![t] = [@ EXCEPT !.op = "call", !.inst = r.inst]]
  /\ UNCHANGED << active, bindings, deps, containers, postponed, lazies,
                  stack, scopes, exc,
                  connectLog, disconnectLog, connectCalled, pings,
                  celery >>

InjectStep(t) ==
  \/ InjectEnter(t)
  \/ InjectDep(t)
  \/ InjectAdd(t)
  \/ InjectConstruct(t)
  \/ InjectCommit(t)

\* The client catches the exception that reached it and drops it.
Handle(t) ==
  /\ t \in active
  /\ exc[t] # "none"
  /\ exc' = [exc EXCEPT ![t] = "none"]
  /\ last' = [last EXCEPT ![t] = NoLast]
  /\ UNCHANGED << active, bindings, deps, containers, factories, heap,
                  postponed, lazies, stack, scopes,
                  connectLog, disconnectLog, connectCalled, pings,
                  celery >>

\* --- DependencyInjector.lazy_inject
\* A lazy_inject that injects its target at once instead of postponing it.
LazyInjectCallEager(t, target) ==
  /\ Idle(t)
  /\ ~Held(InjectorLock)
  /\ Len(lazies) < MaxLazy
  /\ postponed' = Append(postponed, target)
  /\ lazies' = Append(lazies, [obj |-> target, injected |-> 0])
  /\ stack' = [stack EXCEPT ![t] =
       << Frame("inject", "enter", target),
          [Frame("lazy", "call", target) EXCEPT !.lazy = Len(lazies) + 1] >>]
  /\ last' = [last EXCEPT ![t] = NoLast]
  /\ UNCHANGED << active, bindings, deps, containers, factories, heap,
                  scopes, exc, connectLog, disconnectLog, connectCalled, pings,
                  celery >>

\* lazy_inject(target): the target is appended to _postponed under the
\* injector's lock and a closure that has injected nothing yet is returned.
LazyInjectCall(t, target) ==
  /\ Idle(t)
  /\ ~Held(InjectorLock)
  /\ Len(lazies) < MaxLazy
  /\ postponed' = Append(postponed, target)
  /\ lazies' = Append(lazies, [obj |-> target, injected |-> 0])
  /\ last' = [last EXCEPT ![t] = [NoLast EXCEPT !.op = "lazy_inject"]]
  /\ UNCHANGED << active, bindings, deps, containers, factories, heap, stack,
                  scopes, exc, connectLog, disconnectLog, connectCalled, pings,
                  celery >>

\* A closure whose memo belongs to the container it was filled in: invoked
\* while another container is in place it injects its target again.
LazyInvokeScoped(t, l) ==
  /\ Idle(t)
  /\ l \in 1..Len(lazies)
  /\ IF /\ lazies[l].injected # 0
        /\ \E k \in 1..Len(containers[deps]) :
              containers[deps][k].instance = lazies[l].injected
       THEN /\ last' = [last EXCEPT ![t] =
                 [NoLast EXCEPT !.op = "lazy", !.inst = lazies[l].injected]]
            /\ UNCHANGED stack
       ELSE /\ stack' = [stack EXCEPT ![t] =
                 << Frame("inject", "enter", lazies[l].obj),
                    [Frame("lazy", "call", lazies[l].obj) EXCEPT !.lazy = l] >>]
            /\ last' = [last EXCEPT ![t] = NoLast]
  /\ UNCHANGED << active, bindings, deps, containers, factories, heap,
                  postponed, lazies, scopes, exc,
                  connectLog, disconnectLog, connectCalled, pings,
                  celery >>

\* The client calls the closure: it returns what it holds, or injects its
\* target, calls the wrapped object and keeps the result.
LazyInvoke(t, l) ==
  /\ Idle(t)
  /\ l \in 1..Len(lazies)
  /\ IF lazies[l].injected # 0
       THEN /\ last' = [last EXCEPT ![t] =
                 [NoLast EXCEPT !.op = "lazy", !.inst = lazies[l].injected]]
            /\ UNCHANGED stack
       ELSE /\ stack' = [stack EXCEPT ![t] =
                 << Frame("inject", "enter", lazies[l].obj),
                    [Frame("lazy", "call", lazies[l].obj) EXCEPT !.lazy = l] >>]
            /\ last' = [last EXCEPT ![t] = NoLast]
  /\ UNCHANGED << active, bindings, deps, containers, factories, heap,
                  postponed, lazies, scopes, exc,
                  connectLog, disconnectLog, connectCalled, pings,
                  celery >>

\* --- DependencyInjector.connect
\* The log with the entry of the hook that was started on inst closed.
Closed(log, inst, st) ==
  [k \in 1..Len(log) |->
     IF log[k].inst = inst /\ log[k].st = "started"
       THEN [log[k] EXCEPT !.st = st]
       ELSE log[k]]

\* The client awaits injector.connect(): the postponed list is copied.
ConnectCall(t) ==
  /\ Idle(t)
  /\ stack' = [stack EXCEPT ![t] =
       << [Frame("connect", "postponed", Obj("")) EXCEPT !.items = postponed] >>]
  /\ last' = [last EXCEPT ![t] = NoLast]
  /\ connectLog' = << >>
  /\ connectCalled' = TRUE
  /\ UNCHANGED << active, bindings, deps, containers, factories, heap,
                  postponed, lazies, scopes, exc, disconnectLog, pings,
                  celery >>

\* A connect() coroutine that was scheduled as a task of the event loop
\* takes its first step: the postponed list is copied.
ConnectStart(t) ==
  /\ Running(t, "connect", "scheduled")
  /\ stack' = [stack EXCEPT ![t] =
       << [Top(t) EXCEPT !.items = postponed, !.pc = "postponed"] >>
       \o Tail(@)]
  /\ UNCHANGED << active, bindings, deps, containers, factories, heap,
                  postponed, lazies, scopes, exc, last, connectLog,
                  disconnectLog, connectCalled, pings, celery >>

\* Lines 146-149: inject the next postponed target.
ConnectPostponed(t) ==
  /\ Running(t, "connect", "postponed")
  /\ Top(t).i <= Len(Top(t).items)
  /\ stack' = [stack EXCEPT ![t] =
       << Frame("inject", "enter", Top(t).items[Top(t).i]) >> \o @]
  /\ UNCHANGED << active, bindings, deps, containers, factories, heap,
                  postponed, lazies, scopes, exc, last, connectLog,
                  disconnectLog, connectCalled, pings,
                  celery >>

\* Line 151: iter_instances snapshots the current container.
ConnectSnapshot(t) ==
  /\ Running(t, "connect", "postponed")
  /\ ~Held(ContainerLock(deps))
  /\ Top(t).i > Len(Top(t).items)
  /\ stack' = [stack EXCEPT ![t] =
       << [Top(t) EXCEPT !.items = iter_instances(containers[deps], FALSE),
                         !.i = 1, !.pc = "hooks"] >> \o Tail(@)]
  /\ UNCHANGED << active, bindings, deps, containers, factories, heap,
                  postponed, lazies, scopes, exc, last, connectLog,
                  disconnectLog, connectCalled, pings,
                  celery >>

\* A connect that walks the container itself and not a copy of it: each
\* step looks at what the container holds by then.
ConnectHookStartLive(t) ==
  /\ Running(t, "connect", "hooks")
  /\ LET live == iter_instances(containers[deps], FALSE)
     IN /\ Top(t).i <= Len(live)
        /\ IF is_connectable(live[Top(t).i].instance)
             THEN /\ connectLog' = Append(connectLog,
                       [inst |-> live[Top(t).i].instance, st |-> "started"])
                  /\ stack' = [stack EXCEPT ![t] =
                       << [Top(t) EXCEPT !.pc = "await", !.items = live] >>
                       \o Tail(@)]
             ELSE /\ stack' = [stack EXCEPT ![t] =
                       << [Top(t) EXCEPT !.i = @ + 1, !.items = live] >>
                       \o Tail(@)]
                  /\ UNCHANGED connectLog
  /\ UNCHANGED << active, bindings, deps, containers, factories, heap,
                  postponed, lazies, scopes, exc, last, disconnectLog,
                  connectCalled, pings, celery >>

\* Lines 152-154: the next instance of the snapshot; __connect__ is called
\* if it is connectable.
ConnectHookStart(t) ==
  /\ Running(t, "connect", "hooks")
  /\ Top(t).i <= Len(Top(t).items)
  /\ LET inst == Top(t).items[Top(t).i].instance
     IN IF is_connectable(inst)
          THEN /\ connectLog' = Append(connectLog, [inst |-> inst, st |-> "started"])
               /\ UNCHANGED heap
               /\ stack' = [stack EXCEPT ![t] =
                    << [Top(t) EXCEPT !.pc = "await"] >> \o Tail(@)]
          ELSE /\ stack' = [stack EXCEPT ![t] =
                    << [Top(t) EXCEPT !.i = @ + 1] >> \o Tail(@)]
               /\ UNCHANGED << connectLog, heap >>
  /\ UNCHANGED << active, bindings, deps, containers, factories, postponed,
                  lazies, scopes, exc, last, disconnectLog, connectCalled, pings,
                  celery >>

\* A connect that catches what a hook raises and goes on to the next
\* instance, as disconnect does.
ConnectHookEndSwallow(t, ok) ==
  /\ Running(t, "connect", "await")
  /\ ok \/ HookMayRaise(heap[Top(t).items[Top(t).i].instance].cls)
  /\ connectLog' = Closed(connectLog, Top(t).items[Top(t).i].instance,
                          IF ok THEN "done" ELSE "failed")
  /\ heap' = IF ok
              THEN [heap EXCEPT ![Top(t).items[Top(t).i].instance].connected = TRUE]
              ELSE heap
  /\ stack' = [stack EXCEPT ![t] =
       << [Top(t) EXCEPT !.i = @ + 1, !.pc = "hooks"] >> \o Tail(@)]
  /\ UNCHANGED << active, bindings, deps, containers, factories, postponed,
                  lazies, scopes, exc, last, disconnectLog, connectCalled, pings,
                  celery >>

\* The awaited __connect__ completes, or raises: nothing in connect catches
\* the exception.
ConnectHookEnd(t, ok) ==
  /\ Running(t, "connect", "await")
  /\ ok \/ HookMayRaise(heap[Top(t).items[Top(t).i].instance].cls)
  /\ LET inst == Top(t).items[Top(t).i].instance
     IN IF ok
          THEN /\ connectLog' = Closed(connectLog, inst, "done")
               /\ heap' = [heap EXCEPT ![inst].connected = TRUE]
               /\ stack' = [stack EXCEPT ![t] =
                    << [Top(t) EXCEPT !.i = @ + 1, !.pc = "hooks"] >> \o Tail(@)]
               /\ UNCHANGED << exc, last >>
          ELSE /\ connectLog' = Closed(connectLog, inst, "failed")
               /\ Raise(t, "HookError")
               /\ UNCHANGED heap
  /\ UNCHANGED << active, bindings, deps, containers, factories, postponed,
                  lazies, scopes, disconnectLog, connectCalled, pings,
                  celery >>

\* connect returns None.
ConnectReturn(t) ==
  /\ Running(t, "connect", "hooks")
  /\ Top(t).i > Len(Top(t).items)
  /\ stack' = [stack EXCEPT ![t] = Tail(@)]
  /\ last' = [last EXCEPT ![t] = [NoLast EXCEPT !.op = "connect"]]
  /\ UNCHANGED << active, bindings, deps, containers, factories, heap,
                  postponed, lazies, scopes, exc,
                  connectLog, disconnectLog, connectCalled, pings,
                  celery >>

ConnectStep(t) ==
  \/ ConnectPostponed(t)
  \/ ConnectSnapshot(t)
  \/ ConnectHookStart(t)
  \/ \E ok \in BOOLEAN : ConnectHookEnd(t, ok)
  \/ ConnectReturn(t)

\* --- DependencyInjector.disconnect
\* The client awaits injector.disconnect(): iter_instances(reverse=True)
\* snapshots the current container.
DisconnectCall(t) ==
  /\ Idle(t)
  /\ ~Held(ContainerLock(deps))
  /\ stack' = [stack EXCEPT ![t] =
       << [Frame("disconnect", "hooks", Obj("")) EXCEPT
             !.items = iter_instances(containers[deps], TRUE)] >>]
  /\ last' = [last EXCEPT ![t] = NoLast]
  /\ disconnectLog' = << >>
  /\ UNCHANGED << active, bindings, deps, containers, factories, heap,
                  postponed, lazies, scopes, exc, connectLog, connectCalled, pings,
                  celery >>

\* Lines 161-163: the next instance of the snapshot; __disconnect__ is
\* called if it is connectable.
DisconnectHookStart(t) ==
  /\ Running(t, "disconnect", "hooks")
  /\ Top(t).i <= Len(Top(t).items)
  /\ LET inst == Top(t).items[Top(t).i].instance
     IN IF is_connectable(inst)
          THEN /\ disconnectLog' = Append(disconnectLog, [inst |-> inst, st |-> "started"])
               /\ UNCHANGED heap
               /\ stack' = [stack EXCEPT ![t] =
                    << [Top(t) EXCEPT !.pc = "await"] >> \o Tail(@)]
          ELSE /\ stack' = [stack EXCEPT ![t] =
                    << [Top(t) EXCEPT !.i = @ + 1] >> \o Tail(@)]
               /\ UNCHANGED << disconnectLog, heap >>
  /\ UNCHANGED << active, bindings, deps, containers, factories, postponed,
                  lazies, scopes, exc, last, connectLog, connectCalled, pings,
                  celery >>

\* Lines 162-165: the awaited __disconnect__ completes, or raises an
\* Exception, which is caught and logged; the loop goes on either way.
DisconnectHookEnd(t, ok) ==
  /\ Running(t, "disconnect", "await")
  /\ ok \/ HookMayRaise(heap[Top(t).items[Top(t).i].instance].cls)
  /\ disconnectLog' = Closed(disconnectLog, Top(t).items[Top(t).i].instance,
                             IF ok THEN "done" ELSE "failed")
  /\ heap' = IF ok
              THEN [heap EXCEPT ![Top(t).items[Top(t).i].instance].connected = FALSE]
              ELSE heap
  /\ stack' = [stack EXCEPT ![t] =
       << [Top(t) EXCEPT !.i = @ + 1, !.pc = "hooks"] >> \o Tail(@)]
  /\ UNCHANGED << active, bindings, deps, containers, factories, postponed,
                  lazies, scopes, exc, last, connectLog, connectCalled, pings,
                  celery >>

\* disconnect returns None.
DisconnectReturn(t) ==
  /\ Running(t, "disconnect", "hooks")
  /\ Top(t).i > Len(Top(t).items)
  /\ stack' = [stack EXCEPT ![t] = Tail(@)]
  /\ last' = [last EXCEPT ![t] = [NoLast EXCEPT !.op = "disconnect"]]
  /\ UNCHANGED << active, bindings, deps, containers, factories, heap,
                  postponed, lazies, scopes, exc,
                  connectLog, disconnectLog, connectCalled, pings,
                  celery >>

DisconnectStep(t) ==
  \/ DisconnectHookStart(t)
  \/ \E ok \in BOOLEAN : DisconnectHookEnd(t, ok)
  \/ DisconnectReturn(t)

\* --- DependencyInjector.iter_deps and get_dependencies_by_interface
\* safe_is_instance(instance, interface) for an instance of class n: the
\* class itself, its base class ConnectableClient, or the protocol of the
\* two hooks.
IsInstance(n, interface) ==
  \/ interface = n
  \/ interface = "ConnectableProtocol" /\ HasHooks(n)
  \/ interface = "PingableProtocol" /\ HasHooks(n) /\ HasPing(n)
  \/ /\ interface = "ConnectableClient"
     /\ n \in {"Database", "AnotherDatabase", "Repository", "AsyncWorkers",
               "Service"}

\* The client exhausts iter_deps(): the instances iter_instances yields.
IterDeps(t) ==
  /\ Idle(t)
  /\ ~Held(ContainerLock(deps))
  /\ LET it == iter_instances(containers[deps], FALSE)
     IN last' = [last EXCEPT ![t] =
          [NoLast EXCEPT !.op = "iter_deps", !.cont = deps,
                         !.items = [k \in 1..Len(it) |-> it[k].instance]]]
  /\ UNCHANGED << active, bindings, deps, containers, factories, heap,
                  postponed, lazies, stack, scopes, exc,
                  connectLog, disconnectLog, connectCalled, pings,
                  celery >>

\* The client exhausts get_dependencies_by_interface(interface): those of
\* the instances iter_instances yields that are instances of the interface.
GetDependenciesByInterface(t, interface) ==
  /\ Idle(t)
  /\ ~Held(ContainerLock(deps))
  /\ LET it == iter_instances(containers[deps], FALSE)
         Matches(d) == IsInstance(heap[d.instance].cls, interface)
         found == SelectSeq(it, Matches)
     IN last' = [last EXCEPT ![t] =
          [NoLast EXCEPT !.op = "by_interface", !.cont = deps,
                         !.key = Obj(interface),
                         !.items = [k \in 1..Len(found) |-> found[k].instance]]]
  /\ UNCHANGED << active, bindings, deps, containers, factories, heap,
                  postponed, lazies, stack, scopes, exc,
                  connectLog, disconnectLog, connectCalled, pings,
                  celery >>

\* --- celery.InjectableCeleryTask and the loader
\* What lazy_inject is called with for the dependencies of a task's run.
RunDeps(task) ==
  LET ds == inspect(Obj(task)).deps
  IN [k \in 1..Len(ds) |-> ds[k].type]

\* InjectableCeleryTask.__init__ (Celery instantiates the task): the
\* dependencies of run are postponed with lazy_inject and deps_cls,
\* BaseCeleryConnectableDeps when the task declares none, is injected.
TaskInit(t, task) ==
  /\ Idle(t)
  /\ ~Held(InjectorLock)
  /\ task \notin celery.tasks
  /\ celery' = [celery EXCEPT !.tasks = @ \cup {task}]
  /\ postponed' = postponed \o RunDeps(task)
  /\ stack' = [stack EXCEPT ![t] =
       << Frame("inject", "enter", Obj("BaseCeleryConnectableDeps")),
          Frame("task_init", "deps", Obj(task)) >>]
  /\ last' = [last EXCEPT ![t] = NoLast]
  /\ UNCHANGED << active, bindings, deps, containers, factories, heap,
                  lazies, scopes, exc, connectLog, disconnectLog,
                  connectCalled, pings >>

\* The runner of a task is called, from inside a running event loop
\* (outside) or not. When the loader is not loaded, load() runs
\* on_worker_process_init: run_in_event_loop(self.injector.connect(), ...)
\* either makes connect() a task of the running loop and returns at once,
\* or runs it in the loader's loop and waits for its result; then
\* "self.loaded = True". When it is loaded the runner goes on to
\* "self.injector.inject(orig_run)".
TaskCall(t, task, outside) ==
  /\ Idle(t)
  /\ task \in celery.tasks
  /\ IF celery.loaded
       THEN /\ stack' = [stack EXCEPT ![t] =
                 << Frame("inject", "enter", Obj(task)),
                    Frame("task", "inject", Obj(task)) >>]
            /\ UNCHANGED << celery, connectLog, connectCalled >>
       ELSE IF outside
       THEN /\ t # LoopThread
            /\ Idle(LoopThread)
            /\ stack' = [stack EXCEPT
                 ![t] = << Frame("inject", "enter", Obj(task)),
                           Frame("task", "inject", Obj(task)) >>,
                 ![LoopThread] = << Frame("connect", "scheduled", Obj("")) >>]
            /\ celery' = [celery EXCEPT !.loaded = TRUE]
            /\ connectLog' = << >>
            /\ connectCalled' = TRUE
       ELSE /\ stack' = [stack EXCEPT ![t] =
                 << [Frame("connect", "postponed", Obj("")) EXCEPT
                       !.items = postponed],
                    Frame("task", "loading", Obj(task)) >>]
            /\ connectLog' = << >>
            /\ connectCalled' = TRUE
            /\ UNCHANGED celery
  /\ last' = [last EXCEPT ![t] = NoLast]
  /\ UNCHANGED << active, bindings, deps, containers, factories, heap,
                  postponed, lazies, scopes, exc, disconnectLog, pings >>

\* connect() has returned its result to on_worker_process_init:
\* "self.loaded = True", and the runner goes on to
\* "self.injector.inject(orig_run)".
TaskLoaded(t) ==
  /\ Running(t, "task", "loading")
  /\ celery' = [celery EXCEPT !.loaded = TRUE]
  /\ stack' = [stack EXCEPT ![t] =
       << Frame("inject", "enter", Top(t).obj),
          [Top(t) EXCEPT !.pc = "inject"] >> \o Tail(@)]
  /\ UNCHANGED << active, bindings, deps, containers, factories, heap,
                  postponed, lazies, scopes, exc, last, connectLog,
                  disconnectLog, connectCalled, pings >>

\* Lines 129-143: the body of the task executes, "run(*args, **kwargs)";
\* the frame keeps in i the record of that run.
TaskBody(t) ==
  /\ Running(t, "task", "injected")
  /\ LET r == CallWrapped(heap, factories, Top(t).cand)
     IN /\ Len(r.heap) <= MaxInst
        /\ heap' = r.heap
        /\ factories' = r.factories
        /\ stack' = [stack EXCEPT ![t] =
             << [Top(t) EXCEPT !.i = r.inst, !.pc = "ran"] >> \o Tail(@)]
  /\ UNCHANGED << active, bindings, deps, containers, postponed, lazies,
                  scopes, exc, last, connectLog, disconnectLog,
                  connectCalled, pings, celery >>

\* The runner returns the result.
TaskReturn(t) ==
  /\ Running(t, "task", "ran")
  /\ stack' = [stack EXCEPT ![t] = Tail(@)]
  /\ last' = [last EXCEPT ![t] =
       [NoLast EXCEPT !.op = "task", !.key = Top(t).obj,
                      !.fac = Top(t).cand, !.inst = Top(t).i]]
  /\ UNCHANGED << active, bindings, deps, containers, factories, heap,
                  postponed, lazies, scopes, exc, connectLog, disconnectLog,
                  connectCalled, pings, celery >>

TaskStep(t) ==
  \/ TaskLoaded(t)
  \/ TaskBody(t)
  \/ TaskReturn(t)

\* --- fastapi.inject_app
\* _find_fastapi_dependencies: the functions in the Depends of the
\* parameters, each with its own first, then the function itself.
RECURSIVE _find_fastapi_dependencies(_), FindEach(_)
_find_fastapi_dependencies(n) == FindEach(DependsOf(n)) \o << n >>

FindEach(ns) ==
  IF ns = << >> THEN << >>
  ELSE _find_fastapi_dependencies(Head(ns)) \o FindEach(Tail(ns))

\* _inspect_and_lazy_inject over a list of functions: what lazy_inject is
\* called with, in order.
RECURSIVE LazilyInjected(_)
LazilyInjected(ns) ==
  IF ns = << >> THEN << >>
  ELSE LET ds == inspect(Obj(Head(ns))).deps
       IN [k \in 1..Len(ds) |-> ds[k].type] \o LazilyInjected(Tail(ns))

\* The dependencies of the routes, each route's own first and its endpoint
\* after them.
RECURSIVE RouteCallables(_)
RouteCallables(rs) ==
  IF rs = << >> THEN << >>
  ELSE FindEach(Head(rs).dependencies)
       \o _find_fastapi_dependencies(Head(rs).endpoint)
       \o RouteCallables(Tail(rs))

\* _collect_dependencies(injector, app.router): what it appends to
\* _postponed.
_collect_dependencies(a) ==
  LazilyInjected(FindEach(AppDependencies(a)) \o RouteCallables(AppRoutes(a)))

\* The application starts: injector_lifespan runs collect_deps_fn() and
\* awaits injector.connect() (with events: the two startup handlers).
AppStartup(t, a) ==
  /\ Idle(t)
  /\ ~connectCalled
  /\ ~Held(InjectorLock)
  /\ postponed' = postponed \o _collect_dependencies(a)
  /\ stack' = [stack EXCEPT ![t] =
       << [Frame("connect", "postponed", Obj("")) EXCEPT
             !.items = postponed \o _collect_dependencies(a)],
          Frame("lifespan", "connecting", Obj(a)) >>]
  /\ last' = [last EXCEPT ![t] = NoLast]
  /\ connectLog' = << >>
  /\ connectCalled' = TRUE
  /\ UNCHANGED << active, bindings, deps, containers, factories, heap,
                  lazies, scopes, exc, disconnectLog, pings,
                  celery >>

\* connect has returned: "async with app_lifespan(app): yield"; the
\* application handles requests from now on.
AppServe(t) ==
  /\ Running(t, "lifespan", "connecting")
  /\ stack' = [stack EXCEPT ![t] =
       << [Top(t) EXCEPT !.pc = "serving"] >> \o Tail(@)]
  /\ UNCHANGED << active, bindings, deps, containers, factories, heap,
                  postponed, lazies, scopes, exc, last, connectLog,
                  disconnectLog, connectCalled, pings,
                  celery >>

\* Application a is between startup and shutdown.
Serving(a) ==
  \E u \in Threads :
    /\ stack[u] # << >>
    /\ Top(u).op = "lifespan"
    /\ Top(u).pc = "serving"
    /\ Top(u).obj = Obj(a)

\* A request to application a is handled in another thread: the function
\* Provide[target] put in Depends calls "injector.inject(obj)()".
RequestProvide(t, a, target) ==
  /\ Serving(a)
  /\ InjectCall(t, target)

\* The application shuts down, no request being handled: the lifespan
\* awaits injector.disconnect().
AppShutdown(t) ==
  /\ Running(t, "lifespan", "serving")
  /\ \A u \in Threads \ {t} : stack[u] = << >>
  /\ ~Held(ContainerLock(deps))
  /\ stack' = [stack EXCEPT ![t] =
       << [Frame("disconnect", "hooks", Obj("")) EXCEPT
             !.items = iter_instances(containers[deps], TRUE)],
          [Top(t) EXCEPT !.pc = "disconnecting"] >> \o Tail(@)]
  /\ disconnectLog' = << >>
  /\ UNCHANGED << active, bindings, deps, containers, factories, heap,
                  postponed, lazies, scopes, exc, last, connectLog,
                  connectCalled, pings,
                  celery >>

\* disconnect has returned: the lifespan is over.
AppStopped(t) ==
  /\ Running(t, "lifespan", "disconnecting")
  /\ stack' = [stack EXCEPT ![t] = Tail(@)]
  /\ last' = [last EXCEPT ![t] =
       [NoLast EXCEPT !.op = "lifespan", !.key = Top(t).obj]]
  /\ UNCHANGED << active, bindings, deps, containers, factories, heap,
                  postponed, lazies, scopes, exc, connectLog, disconnectLog,
                  connectCalled, pings,
                  celery >>

\* --- healthcheck.DependenciesHealthcheck
\* A task is over when it has returned, raised or been cancelled.
Finished(st) == st \in {"done", "failed", "cancelled"}

\* The number of the next ping_dependencies call.
RECURSIVE MaxCall(_)
MaxCall(ps) ==
  IF ps = << >> THEN 0
  ELSE LET m == MaxCall(Tail(ps))
       IN IF Head(ps).call > m THEN Head(ps).call ELSE m

\* The set "tasks" of call c: the tasks it made and still has.
Tracked(c) ==
  {j \in 1..Len(pings) : pings[j].call = c /\ pings[j].tracked}

\* Line 48: "tasks, _ = await asyncio.wait(...)": asyncio.wait returns
\* (done, pending) and the call goes on with the first of the two sets, the
\* tasks that are over.
KeptAfterWait(c, j) ==
  pings[j].tracked /\ (pings[j].call = c => Finished(pings[j].st))

\* The coroutine of the thread has given control to the event loop, or the
\* thread runs nothing: the tasks of the loop may take steps.
LoopRuns(t) ==
  /\ t \in active
  /\ exc[t] = "none"
  /\ \/ stack[t] = << >>
     \/ /\ stack[t] # << >>
        /\ Top(t).op = "ping"
        /\ Top(t).pc \in {"wait", "gather"}

\* The event loop runs callbacks in the order they were scheduled: every
\* task ensure_future has scheduled takes its first step before the
\* coroutine that awaits is resumed.
NoneReady == \A j \in 1..Len(pings) : pings[j].st # "ready"

\* The client awaits healthcheck.ping_dependencies(max_concurrency=k) on
\* the healthcheck instance it has injected: "tasks" is empty and the
\* generator of get_dependencies_by_interface(PingableProtocol) takes its
\* snapshot of the container at the first turn of the loop.
PingCall(t, k) ==
  /\ Idle(t)
  /\ ~Held(ContainerLock(deps))
  /\ \E d \in 1..Len(containers[deps]) :
       /\ containers[deps][d].key = Obj("DependenciesHealthcheck")
       /\ containers[deps][d].instance # 0
  /\ MaxCall(pings) < MaxPing
  /\ LET it == iter_instances(containers[deps], FALSE)
         Matches(d) == IsInstance(heap[d.instance].cls, "PingableProtocol")
         found == SelectSeq(it, Matches)
     IN stack' = [stack EXCEPT ![t] =
          << [Frame("ping", "loop", Obj("")) EXCEPT
                !.items = [j \in 1..Len(found) |-> found[j].instance],
                !.cand = MaxCall(pings) + 1,
                !.max_concurrency = k] >>]
  /\ last' = [last EXCEPT ![t] = NoLast]
  /\ UNCHANGED << active, bindings, deps, containers, factories, heap,
                  postponed, lazies, scopes, exc, connectLog, disconnectLog,
                  connectCalled, pings,
                  celery >>

\* Lines 43-47: the next dependency: ensure_future schedules a task for
\* self.ping(dependency), the task is added to "tasks", and the call goes
\* to wait once "tasks" has max_concurrency members.
PingSpawn(t) ==
  /\ Running(t, "ping", "loop")
  /\ Top(t).i <= Len(Top(t).items)
  /\ pings' = Append(pings, [inst |-> Top(t).items[Top(t).i], st |-> "ready",
                             call |-> Top(t).cand, tracked |-> TRUE])
  /\ stack' = [stack EXCEPT ![t] =
       << [Top(t) EXCEPT
             !.i = @ + 1,
             !.pc = IF Cardinality(Tracked(Top(t).cand)) + 1
                       >= Top(t).max_concurrency
                      THEN "wait" ELSE "loop"] >> \o Tail(@)]
  /\ UNCHANGED << active, bindings, deps, containers, factories, heap,
                  postponed, lazies, scopes, exc, last, connectLog,
                  disconnectLog, connectCalled,
                  celery >>

\* Line 48: asyncio.wait returns when one of "tasks" is over, and "tasks"
\* becomes the set it returns first.
PingWait(t) ==
  /\ Running(t, "ping", "wait")
  /\ NoneReady
  /\ \E j \in Tracked(Top(t).cand) : Finished(pings[j].st)
  /\ pings' = [j \in 1..Len(pings) |->
                 [pings[j] EXCEPT !.tracked = KeptAfterWait(Top(t).cand, j)]]
  /\ stack' = [stack EXCEPT ![t] =
       << [Top(t) EXCEPT !.pc = "loop"] >> \o Tail(@)]
  /\ UNCHANGED << active, bindings, deps, containers, factories, heap,
                  postponed, lazies, scopes, exc, last, connectLog,
                  disconnectLog, connectCalled,
                  celery >>

\* Lines 50-51: the loop is over: what is left in "tasks" is gathered; with
\* nothing left the call returns (the finally block finds no task).
PingLoopEnd(t) ==
  /\ Running(t, "ping", "loop")
  /\ Top(t).i > Len(Top(t).items)
  /\ IF Tracked(Top(t).cand) = {}
       THEN /\ stack' = [stack EXCEPT ![t] = Tail(@)]
            /\ last' = [last EXCEPT ![t] =
                 [NoLast EXCEPT !.op = "ping", !.cont = Top(t).cand]]
       ELSE /\ stack' = [stack EXCEPT ![t] =
                 << [Top(t) EXCEPT !.pc = "gather"] >> \o Tail(@)]
            /\ UNCHANGED last
  /\ UNCHANGED << active, bindings, deps, containers, factories, heap,
                  postponed, lazies, scopes, exc, connectLog, disconnectLog,
                  connectCalled, pings,
                  celery >>

\* Lines 51-60: gather returns when all of "tasks" have returned, "tasks"
\* is emptied and the call returns; or it raises what one of them raised,
\* the finally block cancels what is left in "tasks" and the exception
\* reaches the client.
PingGather(t) ==
  /\ Running(t, "ping", "gather")
  /\ NoneReady
  /\ LET c == Top(t).cand
     IN \/ /\ \A j \in Tracked(c) : pings[j].st = "done"
           /\ pings' = [j \in 1..Len(pings) |->
                [pings[j] EXCEPT !.tracked = @ /\ pings[j].call # c]]
           /\ stack' = [stack EXCEPT ![t] = Tail(@)]
           /\ last' = [last EXCEPT ![t] =
                [NoLast EXCEPT !.op = "ping", !.cont = c]]
           /\ UNCHANGED exc
        \/ /\ \E j \in Tracked(c) : pings[j].st = "failed"
           /\ pings' = [j \in 1..Len(pings) |->
                IF j \in Tracked(c) /\ ~Finished(pings[j].st)
                  THEN [pings[j] EXCEPT !.st = "cancelled"]
                  ELSE pings[j]]
           /\ Raise(t, "PingError")
  /\ UNCHANGED << active, bindings, deps, containers, factories, heap,
                  postponed, lazies, scopes, connectLog, disconnectLog,
                  connectCalled,
                  celery >>

\* The event loop gives a scheduled task its first step: ping(dependency)
\* runs up to the place where __ping__ waits.
PingTaskStart(t, j) ==
  /\ LoopRuns(t)
  /\ j \in 1..Len(pings)
  /\ pings[j].st = "ready"
  /\ pings' = [pings EXCEPT ![j].st = "started"]
  /\ UNCHANGED << active, bindings, deps, containers, factories, heap,
                  postponed, lazies, stack, scopes, exc, last, connectLog,
                  disconnectLog, connectCalled,
                  celery >>

\* What __ping__ waited for is there: the task returns, or raises.
PingTaskEnd(t, j, ok) ==
  /\ LoopRuns(t)
  /\ j \in 1..Len(pings)
  /\ pings[j].st = "started"
  /\ ok \/ PingMayRaise(heap[pings[j].inst].cls)
  /\ pings' = [pings EXCEPT ![j].st = IF ok THEN "done" ELSE "failed"]
  /\ UNCHANGED << active, bindings, deps, containers, factories, heap,
                  postponed, lazies, stack, scopes, exc, last, connectLog,
                  disconnectLog, connectCalled,
                  celery >>

PingStep(t) ==
  \/ PingSpawn(t)
  \/ PingWait(t)
  \/ PingLoopEnd(t)
  \/ PingGather(t)
  \/ \E j \in 1..Len(pings) : PingTaskStart(t, j)
  \/ \E j \in 1..Len(pings) : \E ok \in BOOLEAN : PingTaskEnd(t, j, ok)

\* --- utils.inject_and_run
\* The client calls inject_and_run(fn, injector): run() starts with
\* "injected = injector.inject(fn)".
InjectAndRunCall(t, fn) ==
  /\ Idle(t)
  /\ stack' = [stack EXCEPT ![t] =
       << Frame("inject", "enter", fn), Frame("run", "inject", fn) >>]
  /\ last' = [last EXCEPT ![t] = NoLast]
  /\ UNCHANGED << active, bindings, deps, containers, factories, heap,
                  postponed, lazies, scopes, exc,
                  connectLog, disconnectLog, connectCalled, pings,
                  celery >>

\* "async with injector": __aenter__ awaits self.connect(). What connect
\* raises leaves inject_and_run: __aexit__ is not called then.
RunEnter(t) ==
  /\ Running(t, "run", "injected")
  /\ stack' = [stack EXCEPT ![t] =
       << [Frame("connect", "postponed", Obj("")) EXCEPT !.items = postponed],
          [Top(t) EXCEPT !.pc = "entered"] >> \o Tail(@)]
  /\ connectLog' = << >>
  /\ connectCalled' = TRUE
  /\ UNCHANGED << active, bindings, deps, containers, factories, heap,
                  postponed, lazies, scopes, exc, last, disconnectLog, pings,
                  celery >>

\* Lines 60-63: connect has returned and the body of fn runs, "injected()",
\* and returns or raises. The frame keeps in i the record of that run.
RunBody(t, ok) ==
  /\ Running(t, "run", "entered")
  /\ LET r == CallWrapped(heap, factories, Top(t).cand)
     IN /\ Len(r.heap) <= MaxInst
        /\ heap' = r.heap
        /\ factories' = r.factories
        /\ stack' = [stack EXCEPT ![t] =
             << [Top(t) EXCEPT !.i = r.inst,
                               !.pc = IF ok THEN "exit" ELSE "exit_raised"] >>
             \o Tail(@)]
  /\ UNCHANGED << active, bindings, deps, containers, postponed, lazies,
                  scopes, exc, last, connectLog, disconnectLog,
                  connectCalled, pings,
                  celery >>

\* The block is left, by return or by the exception of fn: __aexit__
\* awaits self.disconnect().
RunExit(t) ==
  /\ t \in active /\ stack[t] # << >>
  /\ Top(t).op = "run" /\ Top(t).pc \in {"exit", "exit_raised"}
  /\ ~Held(ContainerLock(deps))
  /\ stack' = [stack EXCEPT ![t] =
       << [Frame("disconnect", "hooks", Obj("")) EXCEPT
             !.items = iter_instances(containers[deps], TRUE)],
          [Top(t) EXCEPT !.pc = IF Top(t).pc = "exit"
                                  THEN "exited" ELSE "exited_raised"] >>
       \o Tail(@)]
  /\ disconnectLog' = << >>
  /\ UNCHANGED << active, bindings, deps, containers, factories, heap,
                  postponed, lazies, scopes, exc, last, connectLog,
                  connectCalled, pings,
                  celery >>

\* disconnect has returned: inject_and_run returns what fn returned, or the
\* exception of fn goes on to the client (__aexit__ returns None).
RunReturn(t) ==
  /\ t \in active /\ stack[t] # << >>
  /\ Top(t).op = "run" /\ Top(t).pc \in {"exited", "exited_raised"}
  /\ IF Top(t).pc = "exited"
       THEN /\ stack' = [stack EXCEPT ![t] = Tail(@)]
            /\ last' = [last EXCEPT ![t] =
                 [NoLast EXCEPT !.op = "run", !.key = Top(t).obj,
                                !.fac = Top(t).cand, !.inst = Top(t).i]]
            /\ UNCHANGED exc
       ELSE Raise(t, "BodyError")
  /\ UNCHANGED << active, bindings, deps, containers, factories, heap,
                  postponed, lazies, scopes, connectLog, disconnectLog,
                  connectCalled, pings,
                  celery >>

RunStep(t) ==
  \/ RunEnter(t)
  \/ \E ok \in BOOLEAN : RunBody(t, ok)
  \/ RunExit(t)
  \/ RunReturn(t)

\* --- DependencyInjector.bind and override
\* bind(m): self.bindings | m under the injector's lock.
Bind(t, m) ==
  /\ Idle(t)
  /\ ~Held(InjectorLock)
  /\ bindings' = m @@ bindings
  /\ last' = [last EXCEPT ![t] = [NoLast EXCEPT !.op = "bind"]]
  /\ UNCHANGED << active, deps, containers, factories, heap, postponed,
                  lazies, stack, scopes, exc,
                  connectLog, disconnectLog, connectCalled, pings,
                  celery >>

\* An override that swaps the container but leaves the bindings alone.
OverrideEnterNoMerge(t, m) ==
  /\ Idle(t)
  /\ ~Held(InjectorLock)
  /\ scopes' = [scopes EXCEPT ![t] =
       << [actual_deps |-> deps, actual_bindings |-> bindings, m |-> m] >> \o @]
  /\ containers' = Append(containers, << >>)
  /\ deps' = Len(containers) + 1
  /\ last' = [last EXCEPT ![t] = [NoLast EXCEPT !.op = "override"]]
  /\ UNCHANGED << active, bindings, factories, heap, postponed, lazies, stack,
                  exc, connectLog, disconnectLog, connectCalled, pings,
                  celery >>

\* An override that merges the bindings but goes on using the container in
\* place.
OverrideEnterSameContainer(t, m) ==
  /\ Idle(t)
  /\ ~Held(InjectorLock)
  /\ scopes' = [scopes EXCEPT ![t] =
       << [actual_deps |-> deps, actual_bindings |-> bindings, m |-> m] >> \o @]
  /\ containers' = Append(containers, << >>)
  /\ bindings' = m @@ bindings
  /\ last' = [last EXCEPT ![t] = [NoLast EXCEPT !.op = "override"]]
  /\ UNCHANGED << active, deps, factories, heap, postponed, lazies, stack,
                  exc, connectLog, disconnectLog, connectCalled, pings,
                  celery >>

\* Entering "with injector.override(m)": under the lock the container and
\* the bindings in place are kept aside, and an empty container and the
\* merged bindings put in their place.
OverrideEnter(t, m) ==
  /\ Idle(t)
  /\ ~Held(InjectorLock)
  /\ scopes' = [scopes EXCEPT ![t] =
       << [actual_deps |-> deps, actual_bindings |-> bindings, m |-> m] >> \o @]
  /\ containers' = Append(containers, << >>)
  /\ deps' = Len(containers) + 1
  /\ bindings' = m @@ bindings
  /\ last' = [last EXCEPT ![t] = [NoLast EXCEPT !.op = "override"]]
  /\ UNCHANGED << active, factories, heap, postponed, lazies, stack, exc,
                  connectLog, disconnectLog, connectCalled, pings,
                  celery >>

\* An override without try/finally: an exception raised in the body leaves
\* the scope with the scope's container and bindings still in place.
OverrideExitNoFinally(t) ==
  /\ t \in active
  /\ stack[t] = << >>
  /\ scopes[t] # << >>
  /\ ~Held(InjectorLock)
  /\ deps' = IF exc[t] = "none" THEN Head(scopes[t]).actual_deps ELSE deps
  /\ bindings' = IF exc[t] = "none"
                   THEN Head(scopes[t]).actual_bindings
                   ELSE bindings
  /\ scopes' = [scopes EXCEPT ![t] = Tail(@)]
  /\ last' = [last EXCEPT ![t] = [NoLast EXCEPT !.op = "exit"]]
  /\ UNCHANGED << active, containers, factories, heap, postponed, lazies,
                  stack, exc, connectLog, disconnectLog, connectCalled, pings,
                  celery >>

\* An override that keeps its snapshot in one place shared by all scopes:
\* leaving any scope puts back the first container and the empty table.
OverrideExitToRoot(t) ==
  /\ t \in active
  /\ stack[t] = << >>
  /\ scopes[t] # << >>
  /\ ~Held(InjectorLock)
  /\ deps' = 1
  /\ bindings' = << >>
  /\ scopes' = [scopes EXCEPT ![t] = Tail(@)]
  /\ last' = [last EXCEPT ![t] = [NoLast EXCEPT !.op = "exit"]]
  /\ UNCHANGED << active, containers, factories, heap, postponed, lazies,
                  stack, exc, connectLog, disconnectLog, connectCalled, pings,
                  celery >>

\* Leaving the with block, at its end or with an exception raised in it: the
\* finally clause puts back what was kept aside, and an exception goes on to
\* the caller.
OverrideExit(t) ==
  /\ t \in active
  /\ stack[t] = << >>
  /\ scopes[t] # << >>
  /\ ~Held(InjectorLock)
  /\ deps' = Head(scopes[t]).actual_deps
  /\ bindings' = Head(scopes[t]).actual_bindings
  /\ scopes' = [scopes EXCEPT ![t] = Tail(@)]
  /\ last' = [last EXCEPT ![t] = [NoLast EXCEPT !.op = "exit"]]
  /\ UNCHANGED << active, containers, factories, heap, postponed, lazies,
                  stack, exc, connectLog, disconnectLog, connectCalled, pings,
                  celery >>

\* ------------------------------------------------------- specifications
\* One client thread that injects, makes and calls lazy closures, and
\* connects and disconnects, in any order.
Next ==
  \E t \in Threads :
    \/ \E target \in Targets : InjectCall(t, target)
    \/ InjectStep(t)
    \/ InvokeFactory(t)
    \/ \E target \in LazyTargets : LazyInjectCall(t, target)
    \/ \E l \in 1..MaxLazy : LazyInvoke(t, l)
    \/ ConnectCall(t)
    \/ ConnectStep(t)
    \/ DisconnectCall(t)
    \/ DisconnectStep(t)
    \/ Handle(t)

Spec == Init /\ [][Next]_vars

\* One client thread that injects, binds, connects, and enters and leaves
\* override scopes, MaxGen - 1 of them at most. It makes no lazy closure, so
\* connect finds nothing postponed.
NextOverride ==
  \E t \in Threads :
    \/ \E target \in OverrideTargets : InjectCall(t, target)
    \/ InjectStep(t)
    \/ InvokeFactory(t)
    \/ ConnectCall(t)
    \/ ConnectSnapshot(t)
    \/ ConnectHookStart(t)
    \/ \E ok \in BOOLEAN : ConnectHookEnd(t, ok)
    \/ ConnectReturn(t)
    \/ \E m \in BindChoices : Bind(t, m)
    \/ Len(containers) < MaxGen /\ \E m \in BindChoices : OverrideEnter(t, m)
    \/ OverrideExit(t)
    \/ Handle(t)

SpecOverride == Init /\ [][NextOverride]_vars

\* One client thread that injects Repository in and around override scopes
\* that it nests, MaxNest - 1 of them at most.
NextNested ==
  \E t \in Threads :
    \/ \E target \in NestedTargets : InjectCall(t, target)
    \/ InjectStep(t)
    \/ InvokeFactory(t)
    \/ Len(containers) < MaxNest /\ \E m \in NestedChoices : OverrideEnter(t, m)
    \/ OverrideExit(t)

SpecNested == Init /\ [][NextNested]_vars

\* Two client threads that inject into the one container concurrently.
InitRace == InitWith({"t1", "t2"})

NextRace ==
  \E t \in Threads :
    \/ \E target \in RaceTargets : InjectCall(t, target)
    \/ InjectStep(t)
    \/ InvokeFactory(t)

SpecRace == InitRace /\ [][NextRace]_vars

\* Two client threads: each injects Repository and enters and leaves
\* override scopes while the other is at any point of its own calls.
NextOverrideRace ==
  \E t \in Threads :
    \/ \E target \in NestedTargets : InjectCall(t, target)
    \/ InjectStep(t)
    \/ Len(containers) < MaxGen /\ \E m \in BindChoices : OverrideEnter(t, m)
    \/ OverrideExit(t)

SpecOverrideRace == InitRace /\ [][NextOverrideRace]_vars

\* Two client threads that inject targets whose construction, or that of a
\* sub-dependency, raises, and catch what reaches them.
NextFailure ==
  \E t \in Threads :
    \/ \E target \in FailureTargets : InjectCall(t, target)
    \/ InjectStep(t)
    \/ InvokeFactory(t)
    \/ Handle(t)

SpecFailure == InitRace /\ [][NextFailure]_vars

\* One client thread that injects targets with marked, lifecycle-capable,
\* plain and injector parameters between calls of bind.
NextMarked ==
  \E t \in {"t1"} :
    \/ \E target \in MarkedTargets : InjectCall(t, target)
    \/ InjectStep(t)
    \/ InvokeFactory(t)
    \/ \E m \in MarkedBinds : Bind(t, m)
    \/ Handle(t)

SpecMarked == Init /\ [][NextMarked]_vars

\* Two client threads that inject, each at any point of the other's call;
\* the second also iterates over the registered instances between its calls.
NextOrder ==
  \/ \E t \in Threads :
       \/ \E target \in OrderTargets : InjectCall(t, target)
       \/ InjectStep(t)
  \/ IterDeps("t2")
  \/ \E interface \in Interfaces :
       GetDependenciesByInterface("t2", interface)

SpecOrder == InitRace /\ [][NextOrder]_vars

\* A Celery worker: the first thread instantiates tasks and runs them, the
\* second is the event loop a connect() made a task of runs in.
NextCelery ==
  \/ \E task \in CeleryTasks : TaskInit("t1", task)
  \/ \E task \in CeleryTasks : \E outside \in BOOLEAN :
       TaskCall("t1", task, outside)
  \/ TaskStep("t1")
  \/ ConnectStart(LoopThread)
  \/ \E t \in Threads : InjectStep(t) \/ ConnectStep(t) \/ Handle(t)

SpecCelery == InitRace /\ [][NextCelery]_vars

\* An application: the first thread runs its lifespan, the second handles
\* requests while it serves.
NextApp ==
  \/ \E a \in Apps : AppStartup("t1", a)
  \/ ConnectStep("t1")
  \/ AppServe("t1")
  \/ AppShutdown("t1")
  \/ DisconnectStep("t1")
  \/ AppStopped("t1")
  \/ \E a \in Apps : \E k \in 1..Len(_collect_dependencies(a)) :
       RequestProvide("t2", a, _collect_dependencies(a)[k])
  \/ InvokeFactory("t2")
  \/ \E t \in Threads : InjectStep(t) \/ Handle(t)

SpecApp == InitRace /\ [][NextApp]_vars

\* One client thread, with its event loop, that injects and checks the
\* health of what is registered.
NextPing ==
  \E t \in {"t1"} :
    \/ \E target \in PingTargets : InjectCall(t, target)
    \/ InjectStep(t)
    \/ InvokeFactory(t)
    \/ \E k \in 1..MaxConc : PingCall(t, k)
    \/ PingStep(t)
    \/ Handle(t)

SpecPing == Init /\ [][NextPing]_vars

\* One client thread that calls inject_and_run time and again, with
\* functions whose dependencies are already registered or not yet, and
\* may have postponed a target with lazy_inject before.
NextRun ==
  \E t \in {"t1"} :
    \/ \E fn \in RunTargets : InjectAndRunCall(t, fn)
    \/ \E target \in LazyTargets : LazyInjectCall(t, target)
    \/ InjectStep(t)
    \/ ConnectStep(t)
    \/ DisconnectStep(t)
    \/ RunStep(t)
    \/ Handle(t)

SpecRun == Init /\ [][NextRun]_vars

\* One client thread that injects a plain function and calls what it gets,
\* time and again.
NextFunction ==
  \E t \in {"t1"} :
    \/ \E target \in FunctionTargets : InjectCall(t, target)
    \/ InjectStep(t)
    \/ InvokeFactory(t)

SpecFunction == Init /\ [][NextFunction]_vars

\* One client thread that injects targets annotated with unions and calls
\* what it gets.
NextOptional ==
  \E t \in {"t1"} :
    \/ \E target \in OptionalTargets : InjectCall(t, target)
    \/ InjectStep(t)
    \/ InvokeFactory(t)

SpecOptional == Init /\ [][NextOptional]_vars

\* One client thread that makes lazy closures, invokes them and connects.
NextLazy ==
  \E t \in {"t1"} :
    \/ \E target \in LazyConnectTargets : LazyInjectCall(t, target)
    \/ \E l \in 1..MaxLazy : LazyInvoke(t, l)
    \/ InjectStep(t)
    \/ ConnectCall(t)
    \/ ConnectStep(t)
    \/ Handle(t)

SpecLazy == Init /\ [][NextLazy]_vars

\* One client thread that injects and calls what it gets between calls of
\* bind.
NextBind ==
  \E t \in {"t1"} :
    \/ \E target \in BindTargets : InjectCall(t, target)
    \/ InjectStep(t)
    \/ InvokeFactory(t)
    \/ \E m \in BindInputs : Bind(t, m)

SpecBind == Init /\ [][NextBind]_vars

\* One client thread injects the class whose constructor injects by itself
\* and calls what it gets, a second one injects Database meanwhile. A thread
\* that can take a step of inject takes it sooner or later.
NextEmbedded ==
  \/ \E target \in EmbeddedTargets : InjectCall("t1", target)
  \/ \E target \in ContendingTargets : InjectCall("t2", target)
  \/ \E t \in Threads :
       \/ InjectStep(t)
       \/ InvokeFactory(t)

SpecEmbedded ==
  /\ InitRace
  /\ [][NextEmbedded]_vars
  /\ \A t \in Threads : WF_vars(InjectStep(t))

\* One client thread that injects Repository, connects and disconnects,
\* outside and inside override scopes.
NextScopeLifecycle ==
  \E t \in Threads :
    \/ \E target \in NestedTargets : InjectCall(t, target)
    \/ InjectStep(t)
    \/ ConnectCall(t)
    \/ ConnectSnapshot(t)
    \/ ConnectHookStart(t)
    \/ \E ok \in BOOLEAN : ConnectHookEnd(t, ok)
    \/ ConnectReturn(t)
    \/ DisconnectCall(t)
    \/ DisconnectStep(t)
    \/ Len(containers) < MaxGen /\ \E m \in BindChoices : OverrideEnter(t, m)
    \/ OverrideExit(t)
    \/ Handle(t)

SpecScopeLifecycle == Init /\ [][NextScopeLifecycle]_vars

\* --------------------------------------------------------------- properties
\* The places of container c that hold a record under key.
Positions(c, key) == {k \in 1..Len(c) : c[k].key = key}

Registered(c, key) == Positions(c, key) # {}

RecordOf(c, key) == c[CHOOSE k \in Positions(c, key) : TRUE]

\* No container holds two records under one key.
OneEntryPerKey ==
  \A g \in 1..Len(containers) :
    \A j, k \in 1..Len(containers[g]) :
      containers[g][j].key = containers[g][k].key => j = k

\* A step removes no container and changes no record a container holds:
\* records are only appended.
EntriesStable ==
  /\ Len(containers') >= Len(containers)
  /\ \A g \in 1..Len(containers) :
       /\ Len(containers'[g]) >= Len(containers[g])
       /\ \A k \in 1..Len(containers[g]) : containers'[g][k] = containers[g][k]

\* The calls that went through inject and have handed its result on.
ReturnedByInject(t) ==
  last[t].op \in {"inject", "call"} \/ (last[t].op = "lazy" /\ last[t].cont # 0)

InvokedByClient(t) ==
  last[t].op = "call" \/ (last[t].op = "lazy" /\ last[t].cont # 0)

\* What inject returned to thread t is the wrapped object its container
\* holds under the key.
ReturnedIsRegistered(t) ==
  ReturnedByInject(t) =>
    /\ Registered(containers[last[t].cont], last[t].key)
    /\ RecordOf(containers[last[t].cont], last[t].key).object = last[t].fac

\* What calling that wrapped object returned is the instance the container
\* holds under the key.
InvokedIsRegisteredInstance(t) ==
  InvokedByClient(t) =>
    /\ Registered(containers[last[t].cont], last[t].key)
    /\ RecordOf(containers[last[t].cont], last[t].key).instance = last[t].inst

\* The class an annotation names: the class itself, or the member of
\* "T | None" that is not None.
NonNull(h) ==
  IF h.kind = "obj" THEN h
  ELSE Obj(CHOOSE m \in {h.args[k] : k \in 1..Len(h.args)} : m # NoneType)

\* The class a parameter of class n is declared with, None stripped.
DeclaredClass(n, name) ==
  LET k == CHOOSE j \in 1..Len(Params(n)) : Params(n)[j].name = name
  IN NonNull(Params(n)[k].hint)

\* With no bindings and one container: every object built with a
\* sub-dependency holds the instance the container holds for the
\* sub-dependency's class.
DependentsHoldRegistered ==
  \A h \in 1..Len(heap) :
    \A a \in 1..Len(heap[h].args) :
      heap[h].args[a].inst > 0 =>
        LET key == DeclaredClass(heap[h].cls, heap[h].args[a].name)
        IN /\ Registered(containers[1], key)
           /\ RecordOf(containers[1], key).instance = heap[h].args[a].inst

\* C1: singleton uniqueness. In one container, with the bindings unchanged,
\* over any sequence of inject, lazy_inject, connect and disconnect calls,
\* a key has at most one record and the record never changes, every call of
\* the wrapped object inject returned gives the instance of that record, and
\* every dependent built with the class as a sub-dependency holds that
\* instance.
C1_SingletonUniqueness ==
  /\ [](/\ OneEntryPerKey
        /\ DependentsHoldRegistered
        /\ \A t \in Threads :
             ReturnedIsRegistered(t) /\ InvokedIsRegisteredInstance(t))
  /\ [][EntriesStable]_vars

\* Service's wrapped object is called after a lazy closure was made and
\* connect and disconnect have run hooks on the graph.
C1_Witness ==
  \E t \in Threads :
    /\ last[t].op = "call"
    /\ last[t].key = Obj("Service")
    /\ lazies # << >>
    /\ connectLog # << >>
    /\ disconnectLog # << >>
    /\ \E h \in 1..Len(heap) :
         /\ heap[h].cls = "Service"
         /\ \E a \in 1..Len(heap[h].args) : heap[h].args[a].name = "repo"

\* A wrapped object that was built for a key and lost the race: no container
\* holds it and no call in progress still carries it as its candidate.
Discarded(f) ==
  /\ \A g \in 1..Len(containers) :
       \A k \in 1..Len(containers[g]) : containers[g][k].object # f
  /\ \A t \in Threads :
       \A k \in 1..Len(stack[t]) : stack[t][k].cand # f

\* Two callers that injected the same key got the same wrapped object, and
\* the same instance when they called it.
CallersAgree ==
  \A t, u \in Threads :
    (ReturnedByInject(t) /\ ReturnedByInject(u) /\ last[t].key = last[u].key
       /\ last[t].cont = last[u].cont) =>
      /\ last[t].fac = last[u].fac
      /\ (InvokedByClient(t) /\ InvokedByClient(u)) => last[t].inst = last[u].inst

\* C2: when several threads inject the same unregistered class into one
\* container at once, one candidate is committed and stays; every caller
\* gets that wrapped object and, calling it, the winner's instance; a
\* candidate that lost is neither stored nor returned to any caller.
C2_ExactlyOneWinner ==
  /\ [](/\ OneEntryPerKey
        /\ CallersAgree
        /\ \A t \in Threads :
             /\ ReturnedIsRegistered(t)
             /\ InvokedIsRegisteredInstance(t)
             /\ \A f \in 1..Len(factories) :
                  Discarded(f) =>
                    ~(ReturnedByInject(t) /\ last[t].fac = f)
                    /\ ~(InvokedByClient(t) /\ factories[f].inst # 0
                           /\ last[t].inst = factories[f].inst))
  /\ [][EntriesStable]_vars

\* Both threads built a Repository candidate, one of the two was discarded,
\* and both have called the wrapped object inject returned.
C2_Witness ==
  /\ last["t1"].op = "call" /\ last["t1"].key = Obj("Repository")
  /\ last["t2"].op = "call" /\ last["t2"].key = Obj("Repository")
  /\ \E f \in 1..Len(factories) :
       /\ factories[f].obj = Obj("Repository")
       /\ factories[f].inst # 0
       /\ Discarded(f)

\* The resolved key of a target: None stripped, then the bindings applied.
ResolvedKey(target) ==
  LET u == NonNull(target)
  IN IF u.kind = "obj" /\ u.name \in DOMAIN bindings
       THEN Obj(bindings[u.name])
       ELSE u

\* Thread t is about to run an inject call whose resolved key the current
\* container already holds.
InjectsRegistered(t) ==
  /\ stack[t] # << >>
  /\ Head(stack[t]).op = "inject"
  /\ Head(stack[t]).pc = "enter"
  /\ Registered(containers[deps], ResolvedKey(Head(stack[t]).obj))

\* Such a call returns at once: it builds and wraps nothing, leaves the
\* containers, the bindings and the postponed list as they are, and hands
\* the registered wrapped object to its caller.
RegisteredCallIsPure(t) ==
  (InjectsRegistered(t) /\ stack'[t] # stack[t]) =>
    /\ containers' = containers
    /\ heap' = heap
    /\ factories' = factories
    /\ bindings' = bindings
    /\ postponed' = postponed
    /\ Len(stack'[t]) < Len(stack[t])
    /\ Len(stack[t]) = 1 =>
         /\ last'[t].op = "inject"
         /\ last'[t].fac =
              RecordOf(containers[deps], ResolvedKey(Head(stack[t]).obj)).object

\* C3: inject is idempotent. Every call on a resolved key returns the one
\* wrapped object the container holds under it, which never changes, and a
\* call on a key that is registered constructs nothing and leaves the
\* container's contents and order, the bindings and the postponed list
\* unchanged.
C3_InjectIdempotent ==
  /\ [](OneEntryPerKey /\ \A t \in Threads : ReturnedIsRegistered(t))
  /\ [][EntriesStable /\ \A t \in Threads : RegisteredCallIsPure(t)]_vars

\* inject(Service) has returned to the client after a connect that called
\* the hook of the registered Service instance: the key was registered when
\* the call was made.
C3_Witness ==
  \E t \in Threads :
    /\ last[t].op = "inject"
    /\ last[t].key = Obj("Service")
    /\ \E k \in 1..Len(connectLog) :
         connectLog[k].inst = factories[last[t].fac].inst

\* The records of container c whose instance defines the two hooks (the
\* materialized lifecycle-capable instances).
Capable(c) ==
  {k \in 1..Len(c) : c[k].instance # 0 /\ HasHooks(heap[c[k].instance].cls)}

\* The place of an instance in the registration order of container c.
PlaceOf(c, inst) == CHOOSE k \in 1..Len(c) : c[k].instance = inst

\* The lifecycle-capable instances an instance was built with.
SubDeps(inst) ==
  {heap[inst].args[a].inst : a \in
     {b \in 1..Len(heap[inst].args) :
        /\ heap[inst].args[b].inst > 0
        /\ HasHooks(heap[heap[inst].args[b].inst].cls)}}

\* The hook of inst was called and has completed, according to the log.
Completed(log, inst) ==
  \E k \in 1..Len(log) : log[k].inst = inst /\ log[k].st = "done"

Called(log, inst) == \E k \in 1..Len(log) : log[k].inst = inst

\* C4: connect awaits the connect hooks one at a time, in the container's
\* registration order, and no instance's connect hook starts before the
\* connect hooks of all its sub-dependencies have completed.
C4_ConnectOrder ==
  /\ \A k \in 1..Len(connectLog) :
       connectLog[k].st = "started" => k = Len(connectLog)
  /\ \A j, k \in 1..Len(connectLog) :
       j < k => PlaceOf(containers[deps], connectLog[j].inst)
                  < PlaceOf(containers[deps], connectLog[k].inst)
  /\ \A k \in 1..Len(connectLog) :
       \A s \in SubDeps(connectLog[k].inst) :
         \E j \in 1..(k - 1) :
           connectLog[j].inst = s /\ connectLog[j].st = "done"

\* A disconnect call is running or is the last call that returned.
DisconnectIsLatest ==
  \E t \in Threads :
    \/ last[t].op = "disconnect"
    \/ stack[t] # << >> /\ Head(stack[t]).op = "disconnect"

\* C5: disconnect awaits the disconnect hooks in reverse registration order
\* (the reverse of connect's order), so every instance's disconnect hook
\* runs before the disconnect hook of any of its sub-dependencies.
C5_DisconnectReverse ==
  DisconnectIsLatest =>
    /\ \A j, k \in 1..Len(disconnectLog) :
         j < k => PlaceOf(containers[deps], disconnectLog[j].inst)
                    > PlaceOf(containers[deps], disconnectLog[k].inst)
    /\ \A x \in Capable(containers[deps]) :
         \A k \in 1..Len(disconnectLog) :
           disconnectLog[k].inst \in SubDeps(containers[deps][x].instance) =>
             \E j \in 1..(k - 1) :
               disconnectLog[j].inst = containers[deps][x].instance

\* C6: before connect is called no connect hook has been invoked on any
\* instance; when connect has returned normally the connect hook of every
\* materialized lifecycle-capable instance has completed; when a following
\* disconnect has returned the disconnect hook of every such instance has
\* been invoked.
C6_Lifecycle ==
  /\ ~connectCalled =>
       /\ connectLog = << >>
       /\ \A h \in 1..Len(heap) : ~heap[h].connected
  /\ \A t \in Threads :
       last[t].op = "connect" =>
         \A x \in Capable(containers[deps]) :
           /\ Completed(connectLog, containers[deps][x].instance)
           /\ heap[containers[deps][x].instance].connected
  /\ \A t \in Threads :
       (last[t].op = "disconnect" /\ connectCalled) =>
         \A x \in Capable(containers[deps]) :
           Called(disconnectLog, containers[deps][x].instance)

\* A connect call is in progress in thread t.
InConnect(t) == \E k \in 1..Len(stack[t]) : stack[t][k].op = "connect"

Failed(log) == {k \in 1..Len(log) : log[k].st = "failed"}

\* C7: fail-fast connect. When a connect hook raises, the exception leaves
\* connect and reaches the caller, connect does not return normally, and no
\* connect hook of an instance later in registration order is invoked by
\* that call: the failed hook is the last one the call invoked.
C7_FailFastConnect ==
  /\ [](\A k \in Failed(connectLog) :
          /\ k = Len(connectLog)
          /\ \A t \in Threads : ~InConnect(t) /\ last[t].op # "connect")
  /\ [][Failed(connectLog') # {} /\ Failed(connectLog) = {} =>
          \E t \in Threads :
            /\ InConnect(t)
            /\ stack'[t] = << >>
            /\ exc'[t] = "HookError"]_vars

\* Repository's connect hook raised, the exception has reached the client,
\* and Service, registered after Repository, was not connected.
C7_Witness ==
  /\ Failed(connectLog) # {}
  /\ \E t \in Threads : exc[t] = "HookError"
  /\ \E x \in Capable(containers[deps]) :
       /\ heap[containers[deps][x].instance].cls = "Service"
       /\ x > PlaceOf(containers[deps], connectLog[Len(connectLog)].inst)
       /\ ~heap[containers[deps][x].instance].connected

\* C8: best-effort disconnect. When a disconnect hook raises, the failure is
\* caught, disconnect still invokes the disconnect hook of every other
\* materialized lifecycle-capable instance, and it returns normally.
C8_BestEffortDisconnect ==
  /\ \A t \in Threads :
       (stack[t] # << >> /\ Head(stack[t]).op = "disconnect") =>
         exc[t] = "none"
  /\ \A t \in Threads :
       (last[t].op = "disconnect" /\ Failed(disconnectLog) # {}) =>
         \A x \in Capable(containers[deps]) :
           Called(disconnectLog, containers[deps][x].instance)

\* The instances the records of container c hold.
InstancesOf(c) == {c[k].instance : k \in 1..Len(c)} \ {0}

\* No instance and no wrapped object is held by two containers.
ContainersDisjoint ==
  \A g, h \in 1..Len(containers) :
    g # h =>
      /\ InstancesOf(containers[g]) \cap InstancesOf(containers[h]) = {}
      /\ \A j \in 1..Len(containers[g]) :
           \A k \in 1..Len(containers[h]) :
             containers[g][j].object # containers[h][k].object

\* The class a declared class resolves to through the mapping b.
Through(b, n) == IF n \in DOMAIN b THEN b[n] ELSE n

\* Every instance container c holds was built with, for each sub-dependency,
\* an instance that c holds too and whose class is the declared class
\* resolved through the mapping b.
ResolvedThrough(c, b) ==
  \A x \in InstancesOf(c) :
    \A a \in 1..Len(heap[x].args) :
      heap[x].args[a].inst > 0 =>
        /\ heap[x].args[a].inst \in InstancesOf(c)
        /\ heap[heap[x].args[a].inst].cls =
             Through(b, DeclaredClass(heap[x].cls, heap[x].args[a].name).name)

\* Inside an override(m) scope: the container in use is not the one kept
\* aside, what inject returns comes from the container in use, and the
\* instances of that container are resolved through the kept bindings merged
\* with m.
IsolatedInScope(t) ==
  scopes[t] # << >> =>
    /\ deps # Head(scopes[t]).actual_deps
    /\ ReturnedByInject(t) => last[t].cont = deps
    /\ ResolvedThrough(containers[deps],
                       Head(scopes[t]).m @@ Head(scopes[t]).actual_bindings)

\* Outside every scope inject returns from the first container.
OuterAfterExit(t) ==
  (scopes[t] = << >> /\ ReturnedByInject(t)) => last[t].cont = 1

\* A step that builds an object resolves its sub-dependencies through the
\* bindings in place.
ConstructResolves ==
  Len(heap') > Len(heap) =>
    \A a \in 1..Len(heap'[Len(heap')].args) :
      heap'[Len(heap')].args[a].inst > 0 =>
        heap[heap'[Len(heap')].args[a].inst].cls =
          Through(bindings,
                  DeclaredClass(heap'[Len(heap')].cls,
                                heap'[Len(heap')].args[a].name).name)

\* A step changes no container but the one in use.
OnlyCurrentGrows ==
  \A g \in 1..Len(containers) : g # deps => containers'[g] = containers[g]

\* A step that leaves a scope puts the kept bindings and container back.
ExitRestores(t) ==
  Len(scopes'[t]) < Len(scopes[t]) =>
    /\ deps' = Head(scopes[t]).actual_deps
    /\ bindings' = Head(scopes[t]).actual_bindings

\* C9: binding override isolation. Inside an override(m) scope inject
\* yields instances that no other container holds and whose
\* sub-dependencies are resolved through the bindings merged with m; the
\* outer container is not touched meanwhile; after the scope exits inject
\* resolves with the original bindings and, for a target the outer container
\* holds, returns the original wrapped object and instance and builds
\* nothing.
C9_OverrideIsolation ==
  /\ [](/\ OneEntryPerKey
        /\ ContainersDisjoint
        /\ \A t \in Threads :
             /\ ReturnedIsRegistered(t)
             /\ InvokedIsRegisteredInstance(t)
             /\ IsolatedInScope(t)
             /\ OuterAfterExit(t))
  /\ [][/\ EntriesStable
        /\ OnlyCurrentGrows
        /\ ConstructResolves
        /\ \A t \in Threads : RegisteredCallIsPure(t) /\ ExitRestores(t)]_vars

\* Service was injected outside, then inside an override scope, and once
\* more after the scope was left: the last call returned the outer instance,
\* whose Repository holds a Database, while the Repository built in the scope
\* holds an AnotherDatabase.
C9_Witness ==
  \E t \in Threads :
    /\ scopes[t] = << >>
    /\ last[t].op = "call"
    /\ last[t].key = Obj("Service")
    /\ last[t].cont = 1
    /\ bindings = << >>
    /\ Len(containers) >= 2
    /\ Registered(containers[2], Obj("Service"))
    /\ RecordOf(containers[2], Obj("Service")).instance > last[t].inst
    /\ \E r \in InstancesOf(containers[1]) :
         /\ heap[r].cls = "Repository"
         /\ heap[heap[r].args[1].inst].cls = "Database"
    /\ \E r \in InstancesOf(containers[2]) :
         /\ heap[r].cls = "Repository"
         /\ heap[heap[r].args[1].inst].cls = "AnotherDatabase"

\* A step that enters a scope keeps aside the container and the bindings in
\* place, and changes no scope entered before.
EnterKeeps(t) ==
  Len(scopes'[t]) > Len(scopes[t]) =>
    /\ Head(scopes'[t]).actual_deps = deps
    /\ Head(scopes'[t]).actual_bindings = bindings
    /\ Tail(scopes'[t]) = scopes[t]

\* A step that leaves a scope changes nothing of the scopes around it, no
\* container's contents, and not the exception that is propagating.
ExitKeeps(t) ==
  Len(scopes'[t]) < Len(scopes[t]) =>
    /\ scopes'[t] = Tail(scopes[t])
    /\ containers' = containers
    /\ exc' = exc

\* C10: override restoration. Whatever was injected, bound or connected
\* inside the scope, leaving it (at the end of the body or with an exception
\* raised in it) puts back exactly the container and the binding table that
\* were in place when the scope was entered, and an exception raised in the
\* body goes on propagating. Outside every scope the container in use is
\* the first one.
C10_OverrideRestoration ==
  /\ []((\A t \in Threads : scopes[t] = << >>) => deps = 1)
  /\ [][\A t \in Threads :
          /\ EnterKeeps(t)
          /\ ExitRestores(t)
          /\ ExitKeeps(t)
          /\ (Len(scopes'[t]) = Len(scopes[t]) => scopes'[t] = scopes[t])]_vars

\* A connect hook raised inside an override scope, on an instance of the
\* scope's container; the scope was left with the exception propagating and
\* the first container and the empty binding table are back in place.
C10_Witness ==
  \E t \in Threads :
    /\ last[t].op = "exit"
    /\ exc[t] = "HookError"
    /\ scopes[t] = << >>
    /\ deps = 1
    /\ bindings = << >>
    /\ Len(containers) >= 2
    /\ Failed(connectLog) # {}
    /\ connectLog[Len(connectLog)].inst \in InstancesOf(containers[2])

\* The containers and binding tables kept aside by the scopes thread t is
\* inside, innermost first, are those that were in place one after the other:
\* each scope keeps an older container than the one inside it, the container
\* in use is newer than all of them, and the outermost scope keeps the first
\* container.
ProperlyNested(t) ==
  scopes[t] # << >> =>
    /\ deps > Head(scopes[t]).actual_deps
    /\ \A k \in 1..(Len(scopes[t]) - 1) :
         scopes[t][k].actual_deps > scopes[t][k + 1].actual_deps
    /\ scopes[t][Len(scopes[t])].actual_deps = 1

\* While thread t is inside scopes, the bindings in place are those kept by
\* the innermost scope merged with its mapping.
MergedInScope(t) ==
  scopes[t] # << >> =>
    bindings = Head(scopes[t]).m @@ Head(scopes[t]).actual_bindings

\* C11: nested overrides compose. Leaving the inner of two nested scopes
\* puts back the container and the bindings of the outer scope, so that what
\* was injected in the outer scope before the inner one was entered is
\* returned again and nothing is built anew; leaving the outer scope puts
\* back the original container and bindings.
C11_NestedOverridesCompose ==
  /\ [](/\ OneEntryPerKey
        /\ (\A t \in Threads : scopes[t] = << >>) => deps = 1 /\ bindings = << >>
        /\ \A t \in Threads :
             /\ ProperlyNested(t)
             /\ MergedInScope(t)
             /\ ReturnedIsRegistered(t)
             /\ InvokedIsRegisteredInstance(t)
             /\ ReturnedByInject(t) => last[t].cont = deps)
  /\ [][/\ EntriesStable
        /\ \A t \in Threads :
             /\ EnterKeeps(t)
             /\ ExitRestores(t)
             /\ ExitKeeps(t)
             /\ RegisteredCallIsPure(t)]_vars

\* Two scopes were nested and the inner one, in which a Repository was
\* built, has been left: inject(Repository)() in the outer scope has
\* returned the older Repository of the outer scope's container, which holds
\* an instance of the class the outer scope binds Database to.
C11_Witness ==
  \E t \in Threads :
    /\ Len(scopes[t]) = 1
    /\ deps = 2
    /\ Len(containers) = 3
    /\ last[t].op = "call"
    /\ last[t].key = Obj("Repository")
    /\ last[t].cont = 2
    /\ Registered(containers[3], Obj("Repository"))
    /\ RecordOf(containers[3], Obj("Repository")).instance > last[t].inst
    /\ heap[heap[last[t].inst].args[1].inst].cls = Head(scopes[t]).m["Database"]
    /\ heap[heap[RecordOf(containers[3], Obj("Repository")).instance].args[1].inst].cls
         # Head(scopes[t]).m["Database"]

\* C12: generation independence of instances. Under any interleaving of
\* inject calls with override entry and exit, also from different threads,
\* every instance registered in a container holds only sub-dependency
\* instances registered in that same container: no object graph mixes
\* instances of two containers.
C12_GenerationIndependence ==
  \A g \in 1..Len(containers) :
    \A x \in InstancesOf(containers[g]) :
      \A a \in 1..Len(heap[x].args) :
        heap[x].args[a].inst > 0 =>
          heap[x].args[a].inst \in InstancesOf(containers[g])

\* The instances of the containers kept aside by the scopes thread t is
\* inside (the outer containers).
OuterInstances(t) ==
  UNION {InstancesOf(containers[scopes[t][k].actual_deps]) :
           k \in 1..Len(scopes[t])}

\* A step that calls a hook (it adds an entry to log) calls it on an instance
\* of the container in use, which is no instance of an outer container.
HookOnCurrentOnly(log, logAfter) ==
  Len(logAfter) > Len(log) =>
    /\ logAfter[Len(logAfter)].inst \in InstancesOf(containers[deps])
    /\ \A t \in Threads : logAfter[Len(logAfter)].inst \notin OuterInstances(t)

\* A step taken inside a scope changes nothing of an outer container's
\* instances, their "connected" attribute included.
OuterUntouched(t) ==
  (scopes[t] # << >> /\ scopes'[t] = scopes[t]) =>
    \A x \in OuterInstances(t) : heap'[x] = heap[x]

\* C13: lifecycle isolation of an override scope. connect() and
\* disconnect() called inside an override scope invoke hooks only on
\* instances registered in the scope's own container, never on an instance
\* of the outer container.
C13_ScopeLifecycleIsolation ==
  /\ [](ContainersDisjoint)
  /\ [][/\ HookOnCurrentOnly(connectLog, connectLog')
        /\ HookOnCurrentOnly(disconnectLog, disconnectLog')
        /\ \A t \in Threads : OuterUntouched(t)]_vars

\* Inside a scope, connect and then disconnect have run on the scope's own
\* Database and Repository, while the Repository registered and connected
\* outside is still connected.
C13_Witness ==
  \E t \in Threads :
    /\ scopes[t] # << >>
    /\ last[t].op = "disconnect"
    /\ Len(connectLog) = 2
    /\ Len(disconnectLog) = 2
    /\ \A k \in 1..2 :
         /\ connectLog[k].inst \in InstancesOf(containers[deps])
         /\ disconnectLog[k].inst \in InstancesOf(containers[deps])
    /\ \E x \in OuterInstances(t) :
         heap[x].cls = "Repository" /\ heap[x].connected

\* No log of one call names an instance twice.
NoRepeatIn(log) ==
  \A j, k \in 1..Len(log) : log[j].inst = log[k].inst => j = k

\* C14: over any sequence of connect() and disconnect() calls on one
\* container, no instance's connect hook is invoked more than once and no
\* instance's disconnect hook is invoked more than once. An instance's
\* "connected" attribute is set by its connect hook alone, so the claim
\* forbids a connect hook that starts on an instance whose attribute is set,
\* and an instance that one call's log names twice.
C14_HooksAtMostOnce ==
  /\ NoRepeatIn(connectLog)
  /\ NoRepeatIn(disconnectLog)
  /\ \A k \in 1..Len(connectLog) :
       connectLog[k].st = "started" => ~heap[connectLog[k].inst].connected

\* The objects the constructor of class n has built.
Built(n) == {h \in 1..Len(heap) : heap[h].cls = n}

\* C15 as stated: the constructor of a class target runs at most once per
\* key in a container, for any number of inject calls and factory
\* invocations, also when several threads inject the key concurrently.
C15_ConstructedAtMostOnce ==
  \A n \in ClassNames : Cardinality(Built(n)) <= 1

\* C15 as amended: at most one instance per key is registered in a container
\* and returned; the constructor runs at most once per key in each injecting
\* thread (once when one thread injects), and an instance built by a thread
\* that lost the race is discarded: no container holds it, no caller gets it
\* and no dependent is built with it.
C15_RetainedAtMostOnce ==
  /\ OneEntryPerKey
  /\ DependentsHoldRegistered
  /\ \A n \in ClassNames : Cardinality(Built(n)) <= Cardinality(active)
  /\ \A t \in Threads : InvokedIsRegisteredInstance(t)
  /\ \A n \in ClassNames :
       \A h \in Built(n) :
         \/ Registered(containers[1], Obj(n))
              /\ RecordOf(containers[1], Obj(n)).instance = h
         \/ \E f \in 1..Len(factories) :
              /\ factories[f].inst = h
              /\ \A k \in 1..Len(containers[1]) : containers[1][k].object # f
              /\ \A t \in Threads : ~(ReturnedByInject(t) /\ last[t].fac = f)

\* Both threads built a Service while injecting it at once; one of the two
\* is registered, and both threads' calls of the wrapped object returned it.
C15_Witness ==
  /\ Cardinality(Built("Service")) = 2
  /\ last["t1"].op = "call" /\ last["t1"].key = Obj("Service")
  /\ last["t2"].op = "call" /\ last["t2"].key = Obj("Service")
  /\ last["t1"].inst = last["t2"].inst

\* ------------------------------------------------------------------ C16
\* The lock the next step of thread t's call has to take, if any.
Wanted(t) ==
  IF stack[t] = << >> \/ Top(t).op # "inject" THEN {}
  ELSE IF Top(t).pc = "enter" THEN {ContainerLock(deps)}
  ELSE IF Top(t).pc = "deps" /\ Top(t).i > Len(Top(t).sig.deps)
    THEN {ContainerLock(deps)}
  ELSE IF Top(t).pc = "commit" THEN {ContainerLock(Top(t).cont)}
  ELSE {}

HeldBy(t) == UNION { stack[t][k].locks : k \in 1..Len(stack[t]) }

\* Thread t is inside a constructor that injects by itself.
InConstructor(t) == \E k \in 1..Len(stack[t]) : stack[t][k].pc = "init"

\* The instances built by a constructor that injects by itself hold, in
\* the attribute, the instance registered for what the constructor injected.
EmbeddedHoldsRegistered ==
  \A h \in 1..Len(heap) :
    \A a \in 1..Len(heap[h].attrs) :
      \E c \in 1..Len(containers) : \E p \in 1..Len(containers[c]) :
        /\ containers[c][p].key = Embeds(heap[h].cls)[a].target
        /\ containers[c][p].instance = heap[h].attrs[a].inst

\* C16: a constructor that is given the injector and, while it runs, injects
\* another target and calls what it gets always completes: no lock of the
\* container or of the injector is held while the constructor runs, no
\* thread waits for a lock it holds itself, the instance built keeps the
\* registered instance of what it injected, and every call of inject that
\* has begun returns to the client.
C16_EmbeddedInjectionCompletes ==
  /\ [](\A t \in Threads :
          /\ InConstructor(t) => ~Held(ContainerLock(deps)) /\ ~Held(InjectorLock)
          /\ Wanted(t) \cap HeldBy(t) = {})
  /\ []EmbeddedHoldsRegistered
  /\ \A t \in Threads : (stack[t] # << >>) ~> (stack[t] = << >>)

\* The client has injected the class, called what it got, and holds the
\* instance whose constructor injected Service by itself.
C16_Witness ==
  /\ Idle("t1")
  /\ last["t1"].op = "call"
  /\ last["t1"].key = Obj("ClsWithEmbeddedInjection")
  /\ last["t1"].inst > 0
  /\ heap[last["t1"].inst].attrs # << >>
  /\ heap[heap[last["t1"].inst].attrs[1].inst].cls = "Service"

\* ------------------------------------------------------------------ C17
\* A step that changes the binding table is a bind(m): m's entries are in
\* the table afterwards, and every other entry is one the table held before.
BindMerges ==
  bindings' # bindings =>
    \E m \in BindInputs :
      /\ DOMAIN bindings' = DOMAIN m \cup DOMAIN bindings
      /\ \A k \in DOMAIN m : bindings'[k] = m[k]
      /\ \A k \in DOMAIN bindings \ DOMAIN m : bindings'[k] = bindings[k]

\* Thread t's inject call returns to the client in this step.
ReturnsToClient(t) ==
  /\ Len(stack[t]) = 1
  /\ Head(stack[t]).op = "inject"
  /\ stack'[t] = << >>
  /\ last'[t].op = "inject"

\* The call that returns was made with I or with the class I is bound to:
\* it returns the wrapped object registered under that class.
BoundReturnSameFactory(t) ==
  ReturnsToClient(t) =>
    /\ last'[t].key = Obj(Through(bindings, Head(stack[t]).req.name))
    /\ \A I \in DOMAIN bindings :
         Head(stack[t]).req.name \in {I, bindings[I]} =>
           /\ Registered(containers'[deps], Obj(bindings[I]))
           /\ last'[t].fac =
                RecordOf(containers'[deps], Obj(bindings[I])).object

\* Every argument gathered for a parameter annotated with a bound class is
\* an instance of the class it is bound to.
DependentsGetImpl ==
  \A t \in Threads : \A k \in 1..Len(stack[t]) :
    stack[t][k].op = "inject" =>
      \A j \in 1..Len(stack[t][k].clients) :
        LET arg == stack[t][k].clients[j]
            I == DeclaredClass(stack[t][k].obj.name, arg.name).name
        IN (arg.inst > 0 /\ I \in DOMAIN bindings) =>
             heap[arg.inst].cls = bindings[I]

\* C17: bind(m) merges m into the binding table, a later entry overwriting
\* the earlier one for its key and every other entry kept; the key of a
\* request is the resolved type, so with I bound to Impl inject(I) and
\* inject(Impl) return the same wrapped object, and a dependent whose
\* parameter is annotated I is given an instance of Impl.
C17_BindMergesAndResolves ==
  /\ []DependentsGetImpl
  /\ [][BindMerges /\ \A t \in Threads : BoundReturnSameFactory(t)]_vars

\* ------------------------------------------------------------------ C18
\* The key one application of the binding lookup gives for a declared type.
OnceResolved(n) == Obj(Through(bindings, n))

\* Every argument gathered for a parameter annotated X is the instance the
\* container in use holds under the key X resolves to in one lookup: the
\* instance inject(X)() returns.
ArgsResolvedOnce ==
  \A t \in Threads : \A k \in 1..Len(stack[t]) :
    stack[t][k].op = "inject" =>
      \A j \in 1..Len(stack[t][k].clients) :
        LET arg == stack[t][k].clients[j]
            key == OnceResolved(
                     DeclaredClass(stack[t][k].obj.name, arg.name).name)
        IN arg.inst > 0 =>
             /\ Registered(containers[deps], key)
             /\ RecordOf(containers[deps], key).instance = arg.inst

\* The call inject makes for a sub-dependency is made with the type inspect
\* resolved, and that call looks for the type under itself.
SubCallKeepsType ==
  \A t \in Threads :
    (/\ Len(stack[t]) >= 2
     /\ Head(stack[t]).op = "inject"
     /\ Head(stack[t]).pc = "enter"
     /\ stack[t][2].op = "inject"
     /\ stack[t][2].pc = "deps"
     /\ Len(stack'[t]) = Len(stack[t])
     /\ Head(stack'[t]).pc = "deps")
    => Head(stack'[t]).obj = Head(stack[t]).req

\* C18: resolving a requested type applies the binding lookup exactly once,
\* also when the bound-to type is itself a key of the table: with bindings
\* {X: Y, Y: Z} a parameter annotated X is given the singleton of Y, the
\* instance inject(X)() returns.
C18_BindingAppliedOnce ==
  /\ []ArgsResolvedOnce
  /\ [][SubCallKeepsType]_vars

\* ------------------------------------------------------------------ C19
\* A step that makes a lazy closure builds, wraps and registers nothing and
\* starts no call: the closure it makes holds nothing.
LazyCallBuildsNothing ==
  Len(lazies') > Len(lazies) =>
    /\ heap' = heap
    /\ factories' = factories
    /\ containers' = containers
    /\ stack' = stack
    /\ lazies'[Len(lazies')].injected = 0

\* A record enters a container only by the commit of an inject call in
\* progress.
RegisteredByInjectOnly ==
  containers' # containers =>
    \E t \in Threads :
      /\ stack[t] # << >>
      /\ Head(stack[t]).op = "inject"
      /\ Head(stack[t]).pc = "commit"

\* What closure l holds changes once, on the return of its first invocation,
\* to the instance registered for its target.
LazyFilledOnce(l) ==
  (l <= Len(lazies) /\ lazies'[l].injected # lazies[l].injected) =>
    /\ lazies[l].injected = 0
    /\ \E t \in Threads :
         /\ Len(stack[t]) = 2
         /\ stack[t][2].op = "lazy"
         /\ stack[t][2].lazy = l
    /\ Registered(containers'[deps], ResolvedKey(lazies[l].obj))
    /\ RecordOf(containers'[deps], ResolvedKey(lazies[l].obj)).instance =
         lazies'[l].injected

\* Thread t invokes in this step a closure that holds an instance already.
LaterInvocation(t, l) ==
  /\ l <= Len(lazies)
  /\ lazies[l].injected # 0
  /\ stack[t] = << >>
  /\ last'[t] # last[t]
  /\ last'[t].op = "lazy"
  /\ last'[t].inst = lazies[l].injected

\* A later invocation returns at once what the closure holds and builds
\* nothing.
LaterInvocationIsPure(t) ==
  (last'[t] # last[t] /\ last'[t].op = "lazy" /\ stack[t] = << >>) =>
     /\ \E l \in 1..Len(lazies) : LaterInvocation(t, l)
     /\ heap' = heap
     /\ factories' = factories
     /\ containers' = containers
     /\ stack' = stack

\* C19: lazy_inject(T) builds nothing when it is called and T is registered
\* by no step but one of an inject call; the first invocation of the closure
\* injects T and keeps the registered instance, and every later invocation
\* returns that same instance and builds nothing.
C19_LazyInjectDefers ==
  [][/\ LazyCallBuildsNothing
     /\ RegisteredByInjectOnly
     /\ \A l \in 1..MaxLazy : LazyFilledOnce(l)
     /\ \A t \in Threads : LaterInvocationIsPure(t)]_vars

\* A closure holds the instance of its target and the client has just
\* invoked it again.
C19_Witness ==
  \E t \in Threads : \E l \in 1..Len(lazies) :
    /\ lazies[l].injected # 0
    /\ last[t].op = "lazy"
    /\ last[t].cont = 0
    /\ last[t].inst = lazies[l].injected
    /\ heap[lazies[l].injected].cls = "Service"

\* ------------------------------------------------------------------ C20
\* The record the container in use holds for the target of closure l.
LazyRecord(l) == RecordOf(containers[deps], ResolvedKey(lazies[l].obj))

\* C20: when connect has returned normally every target passed to
\* lazy_inject before is registered in the container in use, invoked or
\* not; if its class defines the hooks its connect hook was awaited by that
\* call and has completed; and a closure that holds an instance holds the
\* registered one.
C20_ConnectMaterializesLazy ==
  /\ \A t \in Threads :
       last[t].op = "connect" =>
         \A l \in 1..Len(lazies) :
           /\ Registered(containers[deps], ResolvedKey(lazies[l].obj))
           /\ LazyRecord(l).instance # 0
           /\ HasHooks(heap[LazyRecord(l).instance].cls) =>
                /\ Completed(connectLog, LazyRecord(l).instance)
                /\ heap[LazyRecord(l).instance].connected
  /\ \A l \in 1..Len(lazies) :
       lazies[l].injected # 0 =>
         /\ Registered(containers[deps], ResolvedKey(lazies[l].obj))
         /\ LazyRecord(l).instance = lazies[l].injected

\* ------------------------------------------------------------------ C21
\* The constructor thread t is about to call raises a TypeError: a required
\* parameter gets no argument.
FailingConstruct(t) ==
  /\ stack[t] # << >>
  /\ Head(stack[t]).op = "inject"
  /\ Head(stack[t]).pc = "construct"
  /\ IsClass(Head(stack[t]).obj.name)
  /\ RaisesTypeError(Head(stack[t]).obj, Head(stack[t]).clients)

\* The step of such a construction leaves every frame of the thread, nested
\* or not, and hands the client an InjectionError that carries the target
\* and the signature inspect gave for it; nothing is built or registered.
FailureReachesClient(t) ==
  (FailingConstruct(t) /\ stack'[t] # stack[t]) =>
    /\ stack'[t] = << >>
    /\ exc'[t] = "InjectionError"
    /\ last'[t].op = "raised"
    /\ last'[t].key = Head(stack[t]).obj
    /\ last'[t].sig = inspect(Head(stack[t]).obj)
    /\ containers' = containers
    /\ heap' = heap

\* An InjectionError comes from nowhere else.
FailureOnlyFromConstruct(t) ==
  (exc'[t] = "InjectionError" /\ exc[t] # "InjectionError") =>
    FailingConstruct(t)

\* No container holds a record of a class with a required parameter that
\* its wrapped object has no argument for.
NoFailedTargetRegistered ==
  \A g \in 1..Len(containers) : \A k \in 1..Len(containers[g]) :
    IsClass(containers[g][k].key.name) =>
      ~RaisesTypeError(containers[g][k].key,
                       factories[containers[g][k].object].kwargs)

\* C21: when the construction of a target raises a type or arity error,
\* inject raises an InjectionError that carries the target and its
\* signature; raised while a sub-dependency is injected it leaves the outer
\* inject too and reaches its caller, and the dependent is not registered.
C21_InjectionFailure ==
  /\ [](NoFailedTargetRegistered
        /\ \A t \in Threads : exc[t] # "none" => stack[t] = << >>)
  /\ [][\A t \in Threads :
          FailureReachesClient(t) /\ FailureOnlyFromConstruct(t)]_vars

\* The client holds the InjectionError of BrokenClient, raised while it
\* injected BrokenClientUser.
C21_Witness ==
  \E t \in Threads :
    /\ exc[t] = "InjectionError"
    /\ last[t].op = "raised"
    /\ last[t].key = Obj("BrokenClient")
    /\ stack[t] = << >>
    /\ ~Registered(containers[deps], Obj("BrokenClientUser"))

\* ------------------------------------------------------------------ C22
\* The names a signature holds in one of its two maps.
NamesOf(ps) == {ps[k].name : k \in 1..Len(ps)}

\* The type of a parameter, unwrapped and rebound.
Rebound(p) == Obj(Through(bindings, NonNull(p.hint).name))

\* The signature sig of obj has parameter p in the slot its rebound type
\* and its marker ask for, with the rebound type, and in no other.
SlotAsDeclared(sig, p) ==
  LET inInjector == sig.injector_arg = p.name
      inDeps == \E k \in 1..Len(sig.deps) :
                  sig.deps[k] = [name |-> p.name, type |-> Rebound(p)]
      inKwargs == \E k \in 1..Len(sig.kwargs) :
                    sig.kwargs[k] = [name |-> p.name, type |-> Rebound(p)]
  IN /\ inInjector <=> Rebound(p) = Obj("DependencyInjector")
     /\ inDeps <=> /\ Rebound(p) # Obj("DependencyInjector")
                   /\ HasHooks(Rebound(p).name) \/ p.marked
     /\ inKwargs <=> /\ Rebound(p) # Obj("DependencyInjector")
                     /\ ~HasHooks(Rebound(p).name)
                     /\ ~p.marked
     /\ p.name \in NamesOf(sig.deps) <=> inDeps
     /\ p.name \in NamesOf(sig.kwargs) <=> inKwargs

\* Every signature an inject call in progress works with classifies the
\* parameters of its target so.
SignaturesAsDeclared ==
  \A t \in Threads : \A k \in 1..Len(stack[t]) :
    (stack[t][k].op = "inject" /\ stack[t][k].pc # "enter") =>
      /\ stack[t][k].sig.obj = stack[t][k].obj
      /\ \A j \in 1..Len(Params(stack[t][k].obj.name)) :
           SlotAsDeclared(stack[t][k].sig, Params(stack[t][k].obj.name)[j])

\* The arguments gathered for a marked parameter are instances the container
\* in use holds as singletons under the parameter's rebound type.
MarkedArgIsSingleton ==
  \A t \in Threads : \A k \in 1..Len(stack[t]) :
    (stack[t][k].op = "inject" /\ stack[t][k].pc \in {"construct", "commit"}) =>
      \A j \in 1..Len(Params(stack[t][k].obj.name)) :
        LET p == Params(stack[t][k].obj.name)[j]
        IN p.marked =>
             /\ Registered(containers[deps], Rebound(p))
             /\ \E a \in 1..Len(stack[t][k].clients) :
                  /\ stack[t][k].clients[a].name = p.name
                  /\ stack[t][k].clients[a].inst =
                       RecordOf(containers[deps], Rebound(p)).instance
                  /\ heap[stack[t][k].clients[a].inst].cls = Rebound(p).name

\* C22: inspect puts every annotated parameter in exactly one slot: the
\* injector slot if its unwrapped, rebound type is the injector type;
\* otherwise deps if that type is lifecycle-capable or the annotation as
\* written carries the Injectable marker; otherwise kwargs. A marked
\* parameter of a class without the hooks is built and registered as a
\* singleton by inject.
C22_InspectClassifies == SignaturesAsDeclared /\ MarkedArgIsSingleton

\* ServiceWithNonConnectable has been built with the registered
\* NonConnectableDatabase, a class without the hooks.
C22_Witness ==
  \E t \in Threads :
    /\ last[t].op = "call"
    /\ last[t].key = Obj("ServiceWithNonConnectable")
    /\ last[t].inst > 0
    /\ heap[last[t].inst].args # << >>
    /\ heap[heap[last[t].inst].args[1].inst].cls = "NonConnectableDatabase"
    /\ Registered(containers[deps], Obj("NonConnectableDatabase"))

\* ------------------------------------------------------------------ C23
\* The annotation is a union of two members one of which is None.
TwoWithNone(h) ==
  /\ h.kind = "union"
  /\ Len(h.args) = 2
  /\ \E k \in 1..2 : h.args[k] = NoneType

\* What the unwrap is to give for an annotation: the member that is not
\* None for such a union, the annotation itself for anything else.
Expected(h) == IF TwoWithNone(h) THEN NonNull(h) ELSE h

\* The annotation of the parameter of class n named name.
HintOf(n, name) ==
  Params(n)[CHOOSE j \in 1..Len(Params(n)) : Params(n)[j].name = name].hint

\* With no bindings: every inject call in progress works on the unwrap of
\* the target it was called with, and its signature holds every parameter
\* with the unwrap of its annotation.
UnwrapAsDeclared ==
  \A t \in Threads : \A k \in 1..Len(stack[t]) :
    (stack[t][k].op = "inject" /\ stack[t][k].pc # "enter") =>
      LET fr == stack[t][k]
      IN /\ fr.obj = Expected(fr.req)
         /\ \A j \in 1..Len(fr.sig.deps) :
              fr.sig.deps[j].type = Expected(HintOf(fr.obj.name, fr.sig.deps[j].name))
         /\ \A j \in 1..Len(fr.sig.kwargs) :
              fr.sig.kwargs[j].type =
                Expected(HintOf(fr.obj.name, fr.sig.kwargs[j].name))
         /\ \A j \in 1..Len(Params(fr.obj.name)) :
              LET p == Params(fr.obj.name)[j]
              IN (TwoWithNone(p.hint) /\ HasHooks(NonNull(p.hint).name)) =>
                   \E d \in 1..Len(fr.sig.deps) : fr.sig.deps[d].name = p.name

\* No container holds a record under a union: the keys are classes.
KeysAreUnwrapped ==
  \A g \in 1..Len(containers) : \A k \in 1..Len(containers[g]) :
    containers[g][k].key.kind = "obj"

\* C23: a union of two members one of which is None resolves to the other
\* member, and every other annotation passes through unchanged; a target
\* with a parameter annotated "T | None" is given the singleton registered
\* for T, the one a parameter annotated T is given.
C23_OptionalUnwrap ==
  /\ UnwrapAsDeclared
  /\ KeysAreUnwrapped
  /\ OneEntryPerKey
  /\ DependentsHoldRegistered
  /\ \A t \in Threads : ReturnedIsRegistered(t)

\* UnionHolder has been built with the registered Database for "None |
\* Database" and the registered AsyncWorkers for "AsyncWorkers | None".
C23_Witness ==
  \E t \in Threads :
    /\ last[t].op = "call"
    /\ last[t].key = Obj("UnionHolder")
    /\ last[t].inst > 0
    /\ Len(heap[last[t].inst].args) = 2
    /\ heap[heap[last[t].inst].args[1].inst].cls = "Database"
    /\ heap[heap[last[t].inst].args[2].inst].cls = "AsyncWorkers"

\* ------------------------------------------------------------------ C24
\* The runs of the body of function n: the records calls of it have left.
RunsOf(n) == {h \in 1..Len(heap) : heap[h].cls = n}

\* The record of a function holds no instance, and its wrapped object none
\* either.
FunctionRecordsHoldNoInstance ==
  \A g \in 1..Len(containers) : \A k \in 1..Len(containers[g]) :
    containers[g][k].key.name \in FunctionNames =>
      /\ containers[g][k].instance = 0
      /\ factories[containers[g][k].object].inst = 0

\* C24 as stated: for a target that is not a class no instance is built at
\* registration, and the body of the function runs on the first invocation
\* of the factory only, later invocations returning what the first
\* returned.
C24_FunctionMemoized ==
  /\ FunctionRecordsHoldNoInstance
  /\ \A n \in FunctionNames : Cardinality(RunsOf(n)) <= 1

\* Thread t calls in this step the wrapped function inject returned to it.
InvokesFunction(t) ==
  /\ last[t].op = "inject"
  /\ last[t].key.name \in FunctionNames
  /\ last'[t].op = "call"

\* Such a call runs the body, whatever ran before, with the arguments the
\* wrapped object was made with, and returns what this run returns.
EveryCallRuns(t) ==
  InvokesFunction(t) =>
    /\ Len(heap') = Len(heap) + 1
    /\ last'[t].inst = Len(heap')
    /\ heap'[Len(heap')].cls = last[t].key.name
    /\ heap'[Len(heap')].args = factories[last[t].fac].kwargs
    /\ factories' = factories
    /\ containers' = containers

\* C24 amended: for a target that is not a class no instance is built at
\* registration and the factory inject returns is a call-wrapper that keeps
\* the injected dependencies and nothing else: every invocation runs the
\* body of the function, each with the registered instances of its
\* dependencies.
C24_FunctionPartial ==
  /\ [](FunctionRecordsHoldNoInstance
        /\ DependentsHoldRegistered
        /\ \A t \in Threads : ReturnedIsRegistered(t))
  /\ [][\A t \in Threads : EveryCallRuns(t)]_vars

\* The body of run_service has run twice, both times with the registered
\* Service.
C24_Witness ==
  \E a, b \in RunsOf("run_service") :
    /\ a # b
    /\ heap[a].args = heap[b].args
    /\ heap[a].args # << >>
    /\ heap[heap[a].args[1].inst].cls = "Service"

\* ------------------------------------------------------------------ C25
\* The instances an instance was built with, as arguments or by its own
\* constructor.
BuiltWith(x) ==
  {heap[x].args[a].inst : a \in {b \in 1..Len(heap[x].args) :
                                   heap[x].args[b].inst > 0}}
  \cup {heap[x].attrs[a].inst : a \in 1..Len(heap[x].attrs)}

\* In every container each instance comes after all the instances it was
\* built with.
BottomUp ==
  \A g \in 1..Len(containers) : \A k \in 1..Len(containers[g]) :
    containers[g][k].instance # 0 =>
      \A s \in BuiltWith(containers[g][k].instance) :
        \E j \in 1..(k - 1) : containers[g][j].instance = s

\* No instance is in two records: an instance several dependents share is
\* registered once.
SharedOnce ==
  \A g \in 1..Len(containers) : \A j, k \in 1..Len(containers[g]) :
    (containers[g][j].instance # 0
     /\ containers[g][j].instance = containers[g][k].instance) => j = k

\* The records of the Service graph a container holds are in the order
\* Database, Repository, AsyncWorkers, Service.
ServiceGraphOrder ==
  LET c == containers[1]
      At(n) == CHOOSE k \in Positions(c, Obj(n)) : TRUE
      Before(a, b) ==
        Registered(c, Obj(b)) => Registered(c, Obj(a)) /\ At(a) < At(b)
  IN /\ Before("Database", "Repository")
     /\ Before("Repository", "AsyncWorkers")
     /\ Before("AsyncWorkers", "Service")

\* What an iteration yielded is in registration order: every instance it
\* yielded is registered, later than the one yielded before it.
YieldedInOrder(t) ==
  last[t].op \in {"iter_deps", "by_interface"} =>
    LET c == containers[last[t].cont]
        its == last[t].items
    IN /\ \A k \in 1..Len(its) : its[k] \in InstancesOf(c)
       /\ \A j, k \in 1..Len(its) :
            j < k => PlaceOf(c, its[j]) < PlaceOf(c, its[k])

\* An iteration yields, of the instances registered when it is made, those
\* that are truthy and, by interface, instances of the interface.
YieldsRegistered(t) ==
  (last'[t] # last[t] /\ last'[t].op \in {"iter_deps", "by_interface"}) =>
    \A k \in 1..Len(containers[deps]) :
      LET x == containers[deps][k].instance
          wanted == /\ x # 0
                    /\ Truthy(heap[x].cls)
                    /\ last'[t].op = "by_interface" =>
                         IsInstance(heap[x].cls, last'[t].key.name)
      IN wanted <=> \E j \in 1..Len(last'[t].items) : last'[t].items[j] = x

\* C25: registration order is bottom-up construction order. In every state
\* each registered instance comes after all its sub-dependencies, a shared
\* sub-dependency is registered once, and iter_deps and
\* get_dependencies_by_interface yield instances in that order (Database,
\* Repository, AsyncWorkers, Service for the Service graph).
C25_RegistrationOrder ==
  /\ [](BottomUp /\ SharedOnce /\ OneEntryPerKey /\ ServiceGraphOrder
        /\ \A t \in Threads : YieldedInOrder(t))
  /\ [][\A t \in Threads : YieldsRegistered(t)]_vars

\* test_injector_iter_deps: iter_deps has yielded the four instances of the
\* Service graph.
C25_Witness ==
  \E t \in Threads :
    /\ last[t].op = "iter_deps"
    /\ Len(last[t].items) >= 4
    /\ \E a, b, c, d \in 1..Len(last[t].items) :
         /\ a < b /\ b < c /\ c < d
         /\ heap[last[t].items[a]].cls = "Database"
         /\ heap[last[t].items[b]].cls = "Repository"
         /\ heap[last[t].items[c]].cls = "AsyncWorkers"
         /\ heap[last[t].items[d]].cls = "Service"

\* ------------------------------------------------------------------ C26
\* Everything reachable from the instances in S through what instances
\* were built with.
RECURSIVE ReachFrom(_)
ReachFrom(S) ==
  LET N == S \cup UNION {BuiltWith(x) : x \in S}
  IN IF N = S THEN S ELSE ReachFrom(N)

\* The dependencies injected into the wrapped function f: the instances it
\* is called with and all they hold.
SuppliedTo(f) ==
  ReachFrom({factories[f].kwargs[k].inst : k \in 1..Len(factories[f].kwargs)}
            \ {0})

ConnectCompleted(x) ==
  \E k \in 1..Len(connectLog) :
    connectLog[k].inst = x /\ connectLog[k].st = "done"

DisconnectInvoked(x) ==
  \E k \in 1..Len(disconnectLog) : disconnectLog[k].inst = x

InRun(t, pcs) ==
  stack[t] # << >> /\ Top(t).op = "run" /\ Top(t).pc \in pcs

\* The step in which the body of fn runs.
BodyRuns(t) ==
  /\ InRun(t, {"entered"})
  /\ stack'[t] # << >>
  /\ Head(stack'[t]).op = "run"
  /\ Head(stack'[t]).pc \in {"exit", "exit_raised"}

\* The step in which inject_and_run, having run fn, returns or raises.
RunEnds(t) == InRun(t, {"exited", "exited_raised"}) /\ stack'[t] = << >>

\* C26: inject_and_run(fn) runs fn only after the connect hooks of all its
\* injected dependencies have completed, and by the time it returns or
\* raises, fn having run, the disconnect hooks of all of them have been
\* invoked, also when fn raises.
C26_RunBracketsLifecycle ==
  [][\A t \in Threads :
       /\ BodyRuns(t) =>
            \A x \in SuppliedTo(Top(t).cand) :
              HasHooks(heap[x].cls) => ConnectCompleted(x)
       /\ RunEnds(t) =>
            \A x \in SuppliedTo(Top(t).cand) :
              HasHooks(heap[x].cls) => DisconnectInvoked(x)]_vars

\* ------------------------------------------------------------------ C27
\* The step in which ping_dependencies returns to the client.
PingReturns(t) ==
  /\ stack[t] # << >>
  /\ Top(t).op = "ping"
  /\ stack'[t] = << >>
  /\ exc'[t] = "none"

\* The instances of the current container whose class implements ping.
Pingable ==
  {containers[deps][k].instance : k \in 1..Len(containers[deps])}
  \cap {x \in 1..Len(heap) : HasHooks(heap[x].cls) /\ HasPing(heap[x].cls)}

\* The pings call c has made on instance x.
PingsOf(c, x) ==
  {j \in 1..Len(pings) : pings[j].call = c /\ pings[j].inst = x}

\* C27: when ping_dependencies(max_concurrency=k) returns, for any k >= 1
\* and any number of dependencies, the ping hook of every materialized
\* dependency that implements ping has run to completion exactly once for
\* that call, and no hook has been invoked on a dependency that does not
\* implement ping.
C27_EveryPingCompletedOnce ==
  [][\A t \in Threads :
       PingReturns(t) =>
         LET c == Top(t).cand
         IN /\ \A x \in Pingable :
                 /\ Cardinality(PingsOf(c, x)) = 1
                 /\ \A j \in PingsOf(c, x) : pings[j].st = "done"
            /\ \A j \in 1..Len(pings) :
                 pings[j].call = c => HasPing(heap[pings[j].inst].cls)]_vars

\* ------------------------------------------------------------------ C28
\* The pings of call c that have started and are not over.
InFlight(c) ==
  {j \in 1..Len(pings) : pings[j].call = c /\ pings[j].st = "started"}

\* C28: during ping_dependencies(max_concurrency=k), at no moment are more
\* than k pings started and not yet finished.
C28_AtMostKInFlight ==
  \A t \in Threads :
    (stack[t] # << >> /\ Top(t).op = "ping") =>
      Cardinality(InFlight(Top(t).cand)) <= Top(t).max_concurrency

\* ------------------------------------------------------------------ C29
\* What Provide[...] names in the app-level dependencies, the route-level
\* dependencies and the handlers of application a, nested Depends included.
Provided(a) ==
  {_collect_dependencies(a)[k] : k \in 1..Len(_collect_dependencies(a))}

\* The instance registered for each of them, and all these hold.
ProvidedInstances(a) ==
  ReachFrom({RecordOf(containers[deps], target).instance :
               target \in {p \in Provided(a) :
                             Registered(containers[deps], p)}} \ {0})

AllConstructed(a) ==
  \A target \in Provided(a) :
    /\ Registered(containers[deps], target)
    /\ RecordOf(containers[deps], target).instance # 0

\* A step of the thread that handles requests.
RequestStep == stack'["t2"] # stack["t2"] \/ last'["t2"] # last["t2"]

\* The step in which the lifespan of application a ends.
LifespanEnds(t, a) ==
  /\ stack[t] # << >>
  /\ Top(t).op = "lifespan"
  /\ Top(t).pc = "disconnecting"
  /\ Top(t).obj = Obj(a)
  /\ stack'[t] = << >>

\* C29: with inject_app, every dependency reachable through Provide[...]
\* from app-level dependencies, route-level dependencies and route handlers
\* (including nested Depends) is constructed and connected during
\* application startup, before any request is handled (a request builds and
\* registers nothing), and all of them are disconnected when the
\* application shuts down.
C29_AppLifecycle ==
  /\ [](\A a \in Apps :
          Serving(a) =>
            /\ AllConstructed(a)
            /\ \A y \in ProvidedInstances(a) :
                 HasHooks(heap[y].cls) => ConnectCompleted(y))
  /\ [][/\ RequestStep => heap' = heap /\ containers' = containers
        /\ \A t \in Threads : \A a \in Apps :
             LifespanEnds(t, a) =>
               \A y \in ProvidedInstances(a) :
                 HasHooks(heap[y].cls) => DisconnectInvoked(y)]_vars

\* ------------------------------------------------------------------ C30
\* The step in which the body of a task executes.
BodyExecutes(t) ==
  /\ stack[t] # << >>
  /\ Top(t).op = "task"
  /\ Top(t).pc = "injected"
  /\ stack'[t] # << >>
  /\ Head(stack'[t]).pc = "ran"

\* connect() has been called and no call of it is still in progress.
ConnectRanToCompletion ==
  /\ connectCalled
  /\ \A u \in Threads : \A k \in 1..Len(stack[u]) :
       stack[u][k].op # "connect"
  /\ \A k \in 1..Len(connectLog) : connectLog[k].st = "done"

\* C30: whenever the body of an injectable Celery task executes, the loader
\* has already run the injector's connect() to completion, so every
\* lifecycle-capable dependency supplied to the body is connected
\* (service.is_alive() holds inside the body).
C30_TaskBodyAfterConnect ==
  [][\A t \in Threads :
       BodyExecutes(t) =>
         /\ celery.loaded
         /\ ConnectRanToCompletion
         /\ \A y \in SuppliedTo(Top(t).cand) :
              HasHooks(heap[y].cls) => heap[y].connected]_vars

\* ------------------------------------------------- container monotonicity
\* Two client threads, each at any point of the other's calls. The first
\* makes a lazy closure of Database, binds, connects (which injects what
\* was postponed) and disconnects; the second injects EmptyPool, which takes
\* a Database, and enters and leaves an override scope.
MonotoneLazyTargets == {Obj("Database")}
MonotoneTargets == {Obj("EmptyPool")}

NextMonotone ==
  \/ \E target \in MonotoneLazyTargets : LazyInjectCall("t1", target)
  \/ \E m \in BindChoices : Bind("t1", m)
  \/ ConnectCall("t1")
  \/ ConnectStep("t1")
  \/ DisconnectCall("t1")
  \/ DisconnectStep("t1")
  \/ \E target \in MonotoneTargets : InjectCall("t2", target)
  \/ \E t \in Threads : InjectStep(t)
  \/ Len(containers) < MaxGen /\ \E m \in BindChoices : OverrideEnter("t2", m)
  \/ OverrideExit("t2")

SpecMonotone == InitRace /\ [][NextMonotone]_vars

\* The container in place changes only by entering or leaving an override
\* scope, and the one left behind keeps every record it had.
OverrideOnlySubstitutes ==
  deps' # deps =>
    /\ \E t \in Threads : last'[t].op \in {"override", "exit"}
    /\ \A g \in 1..Len(containers) : containers'[g] = containers[g]

\* C31: a record once in a container stays there, at the same position and
\* with the same wrapped object and instance, whatever step is taken by
\* inject, lazy_inject, connect, disconnect, bind or override in either
\* thread; override swaps the container in place and rewrites none.
C31_ContainerMonotone ==
  [][EntriesStable /\ OverrideOnlySubstitutes]_vars

\* After an override scope was entered and a disconnect ran, both threads
\* have built a candidate for one key in the same container and one of them
\* has stored its record; the other is about to commit.
C31_Witness ==
  /\ Len(containers) > 1
  /\ disconnectLog # << >>
  /\ \E t \in Threads :
       /\ stack[t] # << >>
       /\ Top(t).op = "inject" /\ Top(t).pc = "commit"
       /\ _get(containers[Top(t).cont], Top(t).obj) # 0
       /\ Top(t).cand # _get(containers[Top(t).cont], Top(t).obj)

\* A step of a connect call in progress awaits no disconnect hook.
ConnectDisconnectsNothing ==
  (\E t \in Threads : InConnect(t)) => disconnectLog' = disconnectLog

\* C32: no rollback of a partial connect. When connect fails at a
\* lifecycle-capable instance, the connect hooks of the lifecycle-capable
\* instances registered before it have completed, those of the instances
\* registered after it have not been invoked, and no step of connect
\* invokes a disconnect hook.
C32_NoRollbackOfPartialConnect ==
  /\ [](\A k \in Failed(connectLog) :
          \A x \in Capable(containers[deps]) :
            LET inst == containers[deps][x].instance
                at == PlaceOf(containers[deps], connectLog[k].inst)
            IN /\ x < at => Completed(connectLog, inst)
               /\ x > at => ~Called(connectLog, inst))
  /\ [][ConnectDisconnectsNothing]_vars

\* ------------------------------------------------------------------ C33
\* An iteration made by thread t yields every record of the container that
\* holds an instance, once, and nothing else.
YieldsMaterialized(t) ==
  (last'[t] # last[t] /\ last'[t].op = "iter_deps") =>
    LET its == last'[t].items
    IN /\ \A k \in 1..Len(containers[deps]) :
            LET x == containers[deps][k].instance
            IN IF x # 0
                 THEN Cardinality({j \in 1..Len(its) : its[j] = x}) = 1
                 ELSE TRUE
       /\ \A j \in 1..Len(its) : its[j] \in InstancesOf(containers[deps])

\* C33: iter_instances yields exactly the registered entries that have a
\* materialized instance, each once, whatever the truth value of the
\* instance, and no entry without one; so what connect and disconnect walk
\* holds every constructed lifecycle-capable instance.
C33_IterYieldsMaterialized ==
  [][\A t \in Threads : YieldsMaterialized(t)]_vars

\* ------------------------------------------------------------------ C34
\* Two client threads. The first makes a lazy closure of Database, connects
\* and injects Repository before and after; the second injects Repository
\* at any point of the first one's calls.
SnapshotLazyTargets == {Obj("Database")}
SnapshotTargets == {Obj("Repository")}

NextSnapshot ==
  \/ \E target \in SnapshotLazyTargets : LazyInjectCall("t1", target)
  \/ \E t \in Threads : \E target \in SnapshotTargets : InjectCall(t, target)
  \/ \E t \in Threads : InjectStep(t)
  \/ ConnectCall("t1")
  \/ ConnectStep("t1")
  \/ Handle("t1")

SpecSnapshot == InitRace /\ [][NextSnapshot]_vars

\* Thread t is in the loop of connect over what iter_instances handed out.
InHooks(t) ==
  /\ stack[t] # << >>
  /\ Top(t).op = "connect"
  /\ Top(t).pc \in {"hooks", "await"}

\* The instances connect walks in thread t.
Walked(t) == {Top(t).items[k].instance : k \in 1..Len(Top(t).items)}

\* The step in which connect enters its loop takes what the container in
\* place holds at that moment.
SnapshotOfRegistered(t) ==
  (~InHooks(t) /\ stack'[t] # << >> /\ Head(stack'[t]).op = "connect"
     /\ Head(stack'[t]).pc = "hooks") =>
    {Head(stack'[t]).items[k].instance :
       k \in 1..Len(Head(stack'[t]).items)} \subseteq InstancesOf(containers[deps])

\* What connect walks does not change while the loop runs.
SnapshotFrozen(t) ==
  (InHooks(t) /\ stack'[t] # << >>) =>
    Head(stack'[t]).items = Top(t).items

\* A connect hook is invoked by a connect call in its loop, on an instance
\* of its snapshot.
HookOnSnapshotOnly ==
  Len(connectLog') > Len(connectLog) =>
    \E t \in Threads :
      /\ InHooks(t)
      /\ connectLog'[Len(connectLog')].inst \in Walked(t)

\* A record registered while no connect call is before its snapshot holds an
\* instance that no connect hook was invoked on; none is invoked on it until
\* connect is called again.
LateIsNotConnected ==
  \A x \in InstancesOf(containers'[deps]) \ InstancesOf(containers[deps]) :
    /\ ~heap'[x].connected
    /\ ~Called(connectLog', x)

\* C34: connect invokes connect hooks only on the instances registered when
\* it takes its snapshot of the container, after the postponed targets were
\* injected; an instance registered later, by another thread during the
\* loop or by anyone after connect returned, gets no connect hook from that
\* call.
C34_ConnectWalksSnapshot ==
  /\ [][/\ HookOnSnapshotOnly
        /\ LateIsNotConnected
        /\ \A t \in Threads : SnapshotOfRegistered(t) /\ SnapshotFrozen(t)]_vars
  /\ [](\A t \in Threads :
          last[t].op = "connect" =>
            \A k \in 1..Len(connectLog) :
              connectLog[k].inst \in InstancesOf(containers[deps]))

\* The second thread has registered Repository while the first is in the
\* loop of connect, which took its snapshot before and has connected
\* Database.
C34_Witness ==
  /\ InHooks("t1")
  /\ Completed(connectLog, 1)
  /\ \E x \in InstancesOf(containers[deps]) \ Walked("t1") :
       /\ heap[x].cls = "Repository"
       /\ ~heap[x].connected

\* ------------------------------------------------------------------ C35
\* Two client threads, each entering and leaving override scopes while the
\* other is inside a scope of its own, MaxNest - 1 scopes in all; the first
\* also injects Repository.
NextOverlap ==
  \/ \E target \in NestedTargets : InjectCall("t1", target)
  \/ InjectStep("t1")
  \/ \E t \in Threads :
       \/ Len(containers) < MaxNest
            /\ \E m \in BindChoices : OverrideEnter(t, m)
       \/ OverrideExit(t)

SpecOverlap == InitRace /\ [][NextOverlap]_vars

\* No override scope is open in any thread.
NoScopeOpen == \A t \in Threads : scopes[t] = << >>

\* C35: when the override scopes of two threads overlap without nesting (A
\* enters, B enters, A exits, B exits), then once both have exited the
\* container and the binding table in place are those in place before A
\* entered: with no scope open, the first container and the bindings of
\* the start.
C35_OverlappingScopesRestore ==
  NoScopeOpen => deps = 1 /\ bindings = << >>

\* ------------------------------------------------------------------ C36
\* Two client threads that inject targets whose construction fails after a
\* sub-dependency was built (DatabaseThenBroken takes a Database, then a
\* BrokenClient whose constructor lacks an argument) or before any was, and
\* Repository, which fails nowhere; the first also binds and makes a lazy
\* closure between its calls.
PartialTargets ==
  {Obj("DatabaseThenBroken"), Obj("BrokenClientUser"), Obj("Repository")}

NextPartial ==
  \/ \E t \in Threads :
       \/ \E target \in PartialTargets : InjectCall(t, target)
       \/ InjectStep(t)
       \/ Handle(t)
  \/ \E m \in BindChoices : Bind("t1", m)
  \/ \E target \in LazyTargets : LazyInjectCall("t1", target)

SpecPartial == InitRace /\ [][NextPartial]_vars

\* The targets of the inject calls in progress in thread t, the one the
\* client made and those made for sub-dependencies.
InjectingKeys(t) ==
  {_unwrap_type_hint(stack[t][k].req) : k \in
     {j \in 1..Len(stack[t]) : stack[t][j].op = "inject"}}

\* The step in which an exception leaves the inject calls of thread t:
\* none of their targets has a record afterwards, and the step removes no
\* record and changes neither the bindings nor the postponed list.
FailedInjectLeavesNoEntry(t) ==
  (exc[t] = "none" /\ exc'[t] # "none") =>
    /\ \A key \in InjectingKeys(t) :
         \A g \in 1..Len(containers') : ~Registered(containers'[g], key)
    /\ containers' = containers
    /\ bindings' = bindings
    /\ postponed' = postponed

\* A step of an inject call changes neither the bindings nor the postponed
\* list.
InjectKeepsTables ==
  (\E t \in Threads :
     stack[t] # << >> /\ Top(t).op = "inject" /\ stack'[t] # stack[t]) =>
    bindings' = bindings /\ postponed' = postponed

CycleTargets == {Obj("Service"), Obj("CycleA"), Obj("CycleUser")}

NextCycle ==
  \/ \E target \in CycleTargets : InjectCall("t1", target)
  \/ \E target \in ContendingTargets : InjectCall("t2", target)
  \/ \E t \in Threads : InjectStep(t)
  \/ Handle("t1")

SpecCycle ==
  /\ InitRace
  /\ [][NextCycle]_vars
  /\ \A t \in Threads : WF_vars(InjectStep(t))

\* The classes the constructor of class n is injected with, as declared: no
\* binding is made in these behaviours, so that is the graph after binding
\* resolution too.
DepNames(n) ==
  {get_cls_from_optional(Params(n)[k].hint).name : k \in
     {j \in 1..Len(Params(n)) :
        LET h == get_cls_from_optional(Params(n)[j].hint)
        IN /\ ~is_injector(h)
           /\ is_connectable_cls(h) \/ Params(n)[j].marked}}

\* What is reachable from the classes in S through DepNames, S included.
RECURSIVE GraphFrom(_)
GraphFrom(S) ==
  LET N == S \cup UNION {DepNames(n) : n \in S}
  IN IF N = S THEN S ELSE GraphFrom(N)

\* The graph of each class, the classes that are on a cycle, and those
\* whose graph holds one.
GraphOf == [n \in ClassNames |-> GraphFrom({n})]

CycleClasses == {n \in ClassNames : n \in GraphFrom(DepNames(n))}

OnCycle(n) == n \in CycleClasses

CyclicClasses == {n \in ClassNames : GraphOf[n] \cap CycleClasses # {}}

Cyclic(n) == n \in CyclicClasses

\* The call the client made ends in this step, for a target whose graph has
\* no cycle: it ends by returning a wrapped object.
AcyclicReturns(t) ==
  (/\ stack[t] # << >>
   /\ stack[t][Len(stack[t])].op = "inject"
   /\ ~Cyclic(_unwrap_type_hint(stack[t][Len(stack[t])].req).name)
   /\ stack'[t] = << >>) =>
    /\ exc'[t] = "none"
    /\ last'[t].op = "inject"

\* inject has returned a wrapped object to thread t: the graph of its target
\* has no cycle, and each class of the graph has one record in the container.
ReturnedGraphRegisteredOnce(t) ==
  last[t].op = "inject" =>
    /\ ~Cyclic(last[t].key.name)
    /\ \A m \in GraphOf[last[t].key.name] :
         Cardinality(Positions(containers[last[t].cont], Obj(m))) = 1

\* C37: inject(T) terminates for every target whose dependency graph is
\* acyclic, by returning, with each reachable dependency registered exactly
\* once; for a graph with a cycle inject never returns a wrapped object (the
\* call ends with an exception) and no class on the cycle is ever
\* registered.
C37_InjectTerminates ==
  /\ [](/\ OneEntryPerKey
        /\ \A t \in Threads : ReturnedGraphRegisteredOnce(t)
        /\ \A g \in 1..Len(containers) : \A k \in 1..Len(containers[g]) :
             ~OnCycle(containers[g][k].key.name))
  /\ [][\A t \in Threads : AcyclicReturns(t)]_vars
  /\ \A t \in Threads : (stack[t] # << >>) ~> (stack[t] = << >>)

\* inject(CycleUser) has ended with the RecursionError at the client: the
\* Database built first is registered, CycleUser is not; and Service was
\* injected before with its whole graph.
C37_Witness ==
  /\ \E t \in Threads : exc[t] = "RecursionError"
  /\ Registered(containers[deps], Obj("Database"))
  /\ Registered(containers[deps], Obj("Service"))
  /\ ~Registered(containers[deps], Obj("CycleUser"))

\* ------------------------------------------------------------------ C38
\* C38: disconnect invokes the disconnect hook of every materialized
\* lifecycle-capable instance of the container in place, whether or not the
\* connect hook of the instance was ever invoked: when disconnect has
\* returned, each such instance has an entry in the log of the call, the
\* ones never connected included.
C38_DisconnectReachesUnconnected ==
  \A t \in Threads :
    last[t].op = "disconnect" =>
      \A x \in Capable(containers[deps]) :
        Called(disconnectLog, containers[deps][x].instance)

\* ------------------------------------------------------------------ C39
\* One client thread that makes a lazy closure of Repository and invokes it
\* before, inside and after override scopes that rebind Database, and
\* injects Repository itself.
NextLazyOverride ==
  \E t \in {"t1"} :
    \/ \E target \in NestedTargets : LazyInjectCall(t, target)
    \/ \E l \in 1..MaxLazy : LazyInvoke(t, l)
    \/ \E target \in NestedTargets : InjectCall(t, target)
    \/ InjectStep(t)
    \/ Len(containers) < MaxGen /\ \E m \in BindChoices : OverrideEnter(t, m)
    \/ OverrideExit(t)

SpecLazyOverride == Init /\ [][NextLazyOverride]_vars

\* What a closure holds, once it holds something, it holds for good.
MemoKept ==
  \A l \in 1..Len(lazies) :
    lazies[l].injected # 0 => lazies'[l].injected = lazies[l].injected

\* The client invokes a closure that holds a value: the step hands that
\* value back, starts no inject and changes no container, instance, wrapped
\* object or binding.
MemoReturned(t, l) ==
  (LazyInvoke(t, l) /\ lazies[l].injected # 0) =>
    /\ last'[t].op = "lazy"
    /\ last'[t].inst = lazies[l].injected
    /\ stack' = stack
    /\ containers' = containers
    /\ heap' = heap
    /\ factories' = factories
    /\ bindings' = bindings

\* C39: once a lazy_inject closure has produced a value, every later
\* invocation returns that same object and looks at neither container nor
\* bindings, also inside or after an override scope that rebinds the
\* target: the memo belongs to no container generation.
C39_LazyMemoOutlivesOverride ==
  [][/\ MemoKept
     /\ \A t \in Threads : \A l \in 1..MaxLazy :
          l <= Len(lazies) => MemoReturned(t, l)]_vars

\* Inside a scope that rebinds Database to AnotherDatabase, in which the
\* client has injected Repository and got one built with an
\* AnotherDatabase, the closure filled before the scope has just returned
\* its Repository, built with a Database, which the container in place
\* does not hold.
C39_Witness ==
  /\ scopes["t1"] # << >>
  /\ last["t1"].op = "lazy"
  /\ last["t1"].inst # 0
  /\ heap[last["t1"].inst].cls = "Repository"
  /\ heap[heap[last["t1"].inst].args[1].inst].cls = "Database"
  /\ last["t1"].inst \notin InstancesOf(containers[deps])
  /\ \E x \in InstancesOf(containers[deps]) : heap[x].cls = "AnotherDatabase"

\* ----------------------------------------------- celery/_loader.py, again
\* A thread holds the loader's lock (threading.Lock of line 44) while it is
\* inside the "with self._lock" of on_worker_process_init.
HoldsLoaderLock(t) ==
  \E k \in 1..Len(stack[t]) :
    stack[t][k].op = "loader" /\ stack[t][k].pc # "lock"

LoaderLockHeld == \E t \in Threads : HoldsLoaderLock(t)

\* A thread calls loader.on_worker_process_init(), as Celery does when a
\* worker process starts and a task's runner does when the loader is not
\* loaded: it waits for the lock.
LoaderCall(t) ==
  /\ Idle(t)
  /\ stack' = [stack EXCEPT ![t] = << Frame("loader", "lock", Obj("")) >>]
  /\ last' = [last EXCEPT ![t] = NoLast]
  /\ UNCHANGED << active, bindings, deps, containers, factories, heap,
                  postponed, lazies, scopes, exc, connectLog, disconnectLog,
                  connectCalled, pings, celery >>

\* An on_worker_process_init that takes no lock.
LoaderEnterNoLock(t, outside) ==
  /\ Running(t, "loader", "lock")
  /\ IF celery.loaded
       THEN /\ stack' = [stack EXCEPT ![t] = Tail(@)]
            /\ last' = [last EXCEPT ![t] = [NoLast EXCEPT !.op = "loader"]]
            /\ UNCHANGED << celery, connectLog, connectCalled >>
       ELSE IF outside
       THEN /\ stack' = [stack EXCEPT ![t] =
                 << Frame("connect", "scheduled", Obj("")) >>]
            /\ celery' = [celery EXCEPT !.loaded = TRUE]
            /\ last' = [last EXCEPT ![t] = [NoLast EXCEPT !.op = "loader"]]
            /\ connectLog' = << >>
            /\ connectCalled' = TRUE
       ELSE /\ stack' = [stack EXCEPT ![t] =
                 << [Frame("connect", "postponed", Obj("")) EXCEPT
                       !.items = postponed],
                    [Top(t) EXCEPT !.pc = "connecting"] >>]
            /\ connectLog' = << >>
            /\ connectCalled' = TRUE
            /\ UNCHANGED << celery, last >>
  /\ UNCHANGED << active, bindings, deps, containers, factories, heap,
                  postponed, lazies, scopes, exc, disconnectLog, pings >>

\* Lines 48-56: the lock is taken; a loader that is loaded returns at once.
\* Otherwise run_in_event_loop is given injector.connect(): called from
\* inside a running loop it makes the coroutine a task of that loop, which
\* runs it once the caller has given control back, and returns None, and the
\* loader goes on to "self.loaded = True" and returns; called from elsewhere
\* it waits, the lock held, for the result of connect() in the loader's
\* loop.
LoaderEnter(t, outside) ==
  /\ Running(t, "loader", "lock")
  /\ ~LoaderLockHeld
  /\ IF celery.loaded
       THEN /\ stack' = [stack EXCEPT ![t] = Tail(@)]
            /\ last' = [last EXCEPT ![t] = [NoLast EXCEPT !.op = "loader"]]
            /\ UNCHANGED << celery, connectLog, connectCalled >>
       ELSE IF outside
       THEN /\ stack' = [stack EXCEPT ![t] =
                 << Frame("connect", "scheduled", Obj("")) >>]
            /\ celery' = [celery EXCEPT !.loaded = TRUE]
            /\ last' = [last EXCEPT ![t] = [NoLast EXCEPT !.op = "loader"]]
            /\ connectLog' = << >>
            /\ connectCalled' = TRUE
       ELSE /\ stack' = [stack EXCEPT ![t] =
                 << [Frame("connect", "postponed", Obj("")) EXCEPT
                       !.items = postponed],
                    [Top(t) EXCEPT !.pc = "connecting"] >>]
            /\ connectLog' = << >>
            /\ connectCalled' = TRUE
            /\ UNCHANGED << celery, last >>
  /\ UNCHANGED << active, bindings, deps, containers, factories, heap,
                  postponed, lazies, scopes, exc, disconnectLog, pings >>

\* Lines 57-64: connect() has returned its result: "self.loaded = True",
\* and the lock is released on the way out.
LoaderLoaded(t) ==
  /\ Running(t, "loader", "connecting")
  /\ celery' = [celery EXCEPT !.loaded = TRUE]
  /\ stack' = [stack EXCEPT ![t] = Tail(@)]
  /\ last' = [last EXCEPT ![t] = [NoLast EXCEPT !.op = "loader"]]
  /\ UNCHANGED << active, bindings, deps, containers, factories, heap,
                  postponed, lazies, scopes, exc, connectLog, disconnectLog,
                  connectCalled, pings >>

\* Two threads of a worker that inject Repository and call
\* on_worker_process_init, from inside a running loop or not, each at any
\* point of the other's calls, and catch what a failed connect raises; the
\* first of them has injected Service lazily before.
NextLoader ==
  \/ \E target \in LazyTargets : LazyInjectCall("t1", target)
  \/ \E t \in Threads :
    \/ \E target \in NestedTargets : InjectCall(t, target)
    \/ InjectStep(t)
    \/ LoaderCall(t)
    \/ \E outside \in BOOLEAN : LoaderEnter(t, outside)
    \/ LoaderLoaded(t)
    \/ ConnectStart(t)
    \/ ConnectStep(t)
    \/ Handle(t)

SpecLoader == InitRace /\ [][NextLoader]_vars

\* ------------------------------------------------------------------ C40
\* The threads in which a connect() is in progress, scheduled ones included.
Connecting == {t \in Threads : InConnect(t)}

\* A step in which a connect() comes into being is taken by a loader call
\* that holds the lock afterwards or has just set loaded, with the loader
\* not loaded before.
ConnectStartedUnloaded ==
  \A t \in Threads :
    (~InConnect(t) /\ InConnect(t)') =>
      /\ ~celery.loaded
      /\ Connecting = {}

\* C40: the loader connects the injector once. Calls of
\* on_worker_process_init are serialized (one thread at a time is inside
\* the lock), no connect() is started while one the loader started is in
\* progress, and once a call has set loaded no later call starts connect().
C40_LoaderConnectsOnce ==
  /\ [](/\ Cardinality({t \in Threads : HoldsLoaderLock(t)}) <= 1
        /\ Cardinality(Connecting) <= 1)
  /\ [][ConnectStartedUnloaded]_vars
  /\ [][celery.loaded => celery'.loaded]_vars

\* The loader is loaded by the first thread, whose connect() has completed
\* Repository's hook, and the second thread's call has returned without a
\* connect() of its own.
C40_Witness ==
  /\ celery.loaded
  /\ last["t2"].op = "loader"
  /\ Connecting = {}
  /\ \E x \in InstancesOf(containers[deps]) :
       heap[x].cls = "Repository" /\ heap[x].connected

====
